---- MODULE Spec2Model ----
(***************************************************************************)
(* A model of the owid-js library: the OWID object (src/src/owid.ts) with  *)
(* its sign and verify operations, the byte codec (Io), the time codec     *)
(* (DateHelper), the key material (Key), the crypto facade (Crypto) and    *)
(* the HTTP signer cache (SignerCacheHttp).                                *)
(*                                                                         *)
(* Every async function is a frame on the stack of the call that entered   *)
(* it.  A frame runs synchronously up to its first await; the steps of the *)
(* model are those synchronous segments.  A frame that returns the promise *)
(* of an inner call settles one step after the inner call has settled.     *)
(***************************************************************************)
EXTENDS Integers, Sequences, FiniteSets, TLC

(***************************************************************************)
(* Optional values: undefined is None, a present value v is Some(v).       *)
(***************************************************************************)
None == <<>>
Some(v) == <<v>>
IsSome(o) == Len(o) = 1
The(o) == o[1]

(***************************************************************************)
(* Bounds of the model.                                                    *)
(***************************************************************************)
\* the longest list of keys passed to verifyWithPublicKeys
MaxKeys == 2
\* the number of calls that may be in flight on the one OWID
MaxCalls == 2
\* the number of get calls on the HTTP signer cache
MaxGets == 2
\* the number of conversions of the OWID to or from bytes or JSON
MaxConversions == 3
MaxArrays == 4

(***************************************************************************)
(* VerifiedStatus (src/src/verifiedStatus.ts).                             *)
(***************************************************************************)
VerifiedStatus ==
  {"NotStarted", "SignerNotFound", "KeyNotFound", "Valid", "NotValid",
   "Processing", "Exception"}

(***************************************************************************)
(* Io: the byte codec.  A byte array is a sequence of numbers; a string is *)
(* the sequence of its UTF-16 code units.  An operation that can throw     *)
(* returns [ok |-> FALSE] and the bytes written so far.                    *)
(***************************************************************************)
Bytes(b) == [ok |-> TRUE, b |-> b]
Thrown(b) == [ok |-> FALSE, b |-> b]

\* a writeByte that keeps the low 8 bits of any number
writeByteLow8(b, v) == Bytes(Append(b, v % 256))

\* Io.writeByte with a number; undefined is handled by the callers
writeByte(b, v) ==
  IF v < 0 \/ v > 255 THEN Thrown(b) ELSE Bytes(Append(b, v))

RECURSIVE writeChars(_, _, _)
writeChars(b, v, i) ==
  IF i > Len(v) THEN Bytes(b)
  ELSE LET r == writeByte(b, v[i])
       IN IF r.ok THEN writeChars(r.b, v, i + 1) ELSE r

\* Io.writeString: v is an optional string; undefined and '' are falsy
writeString(b, v) ==
  IF IsSome(v) /\ Len(The(v)) > 0
  THEN LET r == writeChars(b, The(v), 1)
       IN IF r.ok THEN Bytes(Append(r.b, 0)) ELSE r
  ELSE Thrown(b)

(***************************************************************************)
(* A JavaScript number that may have a fractional part is held as whole    *)
(* minutes plus a fraction in milliseconds, 0 <= frac < minuteInMs, and a  *)
(* count of multiples of 2^32 (which a 32 bit integer of the checker       *)
(* cannot hold), so its value is wraps * 2^32 + whole + frac / minuteInMs  *)
(* with -2^31 <= whole < 2^31.                                             *)
(***************************************************************************)
minuteInMs == 1000 * 60

Num(whole, frac) == [wraps |-> 0, whole |-> whole, frac |-> frac]

\* n + k for an integer k = wraps * 2^32 + whole
Plus(n, k) == [n EXCEPT !.wraps = @ + k.wraps, !.whole = @ + k.whole]

\* the value of n is below zero
Negative(n) == n.wraps < 0 \/ (n.wraps = 0 /\ n.whole < 0)

\* ToUint32 of DataView.setUint32 drops the fraction (towards zero) and
\* reduces modulo 2^32, which drops the multiples of 2^32; whole stays
\* within 32 bits, where the reduction of a non-negative number is the
\* number itself and a negative number has the two's complement bytes that
\* floored division by 256 gives
Trunc(n) == IF Negative(n) /\ n.frac > 0 THEN n.whole + 1 ELSE n.whole

\* writeUint32 without the little endian flag of setUint32
writeUint32BigEndian(b, v) ==
  LET n == IF IsSome(v) THEN Trunc(The(v)) ELSE 0
  IN Bytes(b \o << (n \div 16777216) % 256, (n \div 65536) % 256,
                   (n \div 256) % 256, n % 256 >>)

\* Io.writeUint32: four bytes, little endian; undefined converts to 0
writeUint32(b, v) ==
  LET n == IF IsSome(v) THEN Trunc(The(v)) ELSE 0
  IN Bytes(b \o << n % 256, (n \div 256) % 256, (n \div 65536) % 256,
                   (n \div 16777216) % 256 >>)

\* Reader: the array and the index of the byte to be read next
Reader(array) == [array |-> array, index |-> 0]

\* what a read gives: the reader as it is left and the value read
Read(r, v) == [r |-> r, v |-> v]

\* Io.readByte: array[index++], which is undefined beyond the end
readByte(r) ==
  Read([r EXCEPT !.index = @ + 1],
       IF r.index < Len(r.array) THEN Some(r.array[r.index + 1]) ELSE None)

\* the loop of Io.readString
RECURSIVE readChars(_, _)
readChars(b, r) ==
  IF b.index < Len(b.array) /\ b.array[b.index + 1] # 0
  THEN readChars([b EXCEPT !.index = @ + 1], Append(r, b.array[b.index + 1]))
  ELSE Read(b, r)

\* Io.readString: the code units up to a 0 or the end, and one step more
readString(b) ==
  LET c == readChars(b, <<>>)
  IN Read([c.r EXCEPT !.index = @ + 1], c.v)

\* ToInt32 of a byte that was read: undefined converts to 0
ToInt(v) == IF IsSome(v) THEN The(v) ELSE 0

\* Io.readUint32: the bitwise operators work on 32 bit signed integers, so
\* a fourth byte of 128 or more makes the result negative
readUint32(b) ==
  LET b0 == readByte(b)
      b1 == readByte(b0.r)
      b2 == readByte(b1.r)
      b3 == readByte(b2.r)
      top == IF ToInt(b3.v) >= 128 THEN ToInt(b3.v) - 256 ELSE ToInt(b3.v)
  IN Read(b3.r, Num(ToInt(b0.v) + (ToInt(b1.v) * 256)
                      + (ToInt(b2.v) * 65536) + (top * 16777216), 0))

\* Io.readDate
readDate(b) == readUint32(b)

\* Array.slice(from, to) with 0 <= from <= to
Slice(array, from, to) ==
  IF from >= Len(array) THEN <<>>
  ELSE SubSeq(array, from + 1, IF to > Len(array) THEN Len(array) ELSE to)

\* Io.readSignature: the 64 bytes at the index, or as many as there are
readSignature(b) ==
  LET c == 64
  IN Read([b EXCEPT !.index = @ + c], Slice(b.array, b.index, b.index + c))

(***************************************************************************)
(* DateHelper.  Instants are milliseconds counted from Io.dateBase, so the *)
(* base instant itself is 0 in the model.  The instant of a number of      *)
(* minutes is the record of its multiples of 2^32 minutes and the          *)
(* milliseconds of the rest.                                               *)
(***************************************************************************)
ioDateBaseTime == 0

\* DateHelper.getDateInMinutes: a division without rounding
getDateInMinutes(date) ==
  LET difference == date - ioDateBaseTime
  IN Num(difference \div minuteInMs, difference % minuteInMs)

\* DateHelper.getDateFromMinutes, as the getTime() of the date
getDateFromMinutes(minutes) ==
  [wraps |-> minutes.wraps,
   ms |-> ioDateBaseTime + (minutes.whole * minuteInMs) + minutes.frac]

\* time >= ms for the getTime() of a date and a number of milliseconds
\* below 2^31
AtOrAfter(time, ms) == time.wraps > 0 \/ (time.wraps = 0 /\ time.ms >= ms)

(***************************************************************************)
(* Crypto.  The ECDSA primitive is a black box with the usual contract: a  *)
(* signature made with the private key of a pair over a message verifies   *)
(* with the public key of that pair over that message and nothing else.    *)
(* A signature is the record of who signed what, and its length in bytes.  *)
(***************************************************************************)
KeyPairs == {1, 2}

\* Crypto.generateKeys: the private key signs, the public key verifies
privateKey(p) == [pair |-> p, usages |-> {"sign"}]
publicKey(p) == [pair |-> p, usages |-> {"verify"}]

Ok(v) == [ok |-> TRUE, v |-> v]
Throw == [ok |-> FALSE]

\* Crypto.sign
CryptoSign(key, data) ==
  IF "sign" \in key.usages
  THEN Ok([len |-> 64, pair |-> key.pair, msg |-> data])
  ELSE Throw

\* Crypto.verify over a primitive that rejects a signature of another length
CryptoVerifyRejectsLength(key, signature, data) ==
  IF "verify" \in key.usages /\ IsSome(signature) /\ The(signature).len = 64
  THEN Ok(The(signature).pair = key.pair /\ The(signature).msg = data)
  ELSE Throw

\* Crypto.verify; subtle.verify rejects a signature that is not a buffer
CryptoVerify(key, signature, data) ==
  IF "verify" \in key.usages
  THEN IF IsSome(signature)
       THEN Ok(/\ The(signature).len = 64
               /\ The(signature).pair = key.pair
               /\ The(signature).msg = data)
       ELSE Throw
  ELSE Throw

\* A PEM text: the marker it carries ("PUBLIC", "PRIVATE" or neither) and
\* the key pair its content encodes (0 when the content is not a key)
Pem(type, pair) == [type |-> type, pair |-> pair]
EmptyPem == Pem("", 0)

\* Crypto.importKey: the outcomes of the import.  Without a marker the
\* function throws.  A public key imports with usage verify.  The import of
\* a private key as 'spki' with usage sign is left to the platform: it is
\* rejected, or it yields a key that can sign.
ImportKey(pem) ==
  IF pem.type = "PRIVATE"
  THEN IF pem.pair = 0 THEN {Throw} ELSE {Throw, Ok(privateKey(pem.pair))}
  ELSE IF pem.type = "PUBLIC"
  THEN IF pem.pair = 0 THEN {Throw} ELSE {Ok(publicKey(pem.pair))}
  ELSE {Throw}

(***************************************************************************)
(* Key.  created is the text of a date; the Key constructor given a number *)
(* stores Date.toString(), which has no milliseconds, so the text is held  *)
(* as whole seconds.                                                       *)
(***************************************************************************)
\* Key constructor with a number of milliseconds
Key(pem, created) ==
  [pem |-> pem, created |-> Some(created \div 1000), _cryptoKey |-> None]

\* Key.createdDate, as its getTime(); None is NaN
createdDate(key) ==
  IF IsSome(key.created) THEN Some(The(key.created) * 1000) ELSE None

(***************************************************************************)
(* The text of created.  Date.toString() writes local time as              *)
(* "Wed Jan 01 2020 02:00:30 GMT..."; Io.dateBase is local midnight of     *)
(* Wednesday 1 January 2020, so the text follows from the seconds since    *)
(* the base.  Texts are sequences of character codes, and the model keeps  *)
(* to instants of the year 2020.                                           *)
(***************************************************************************)
\* "Sun", "Mon", "Tue", "Wed", "Thu", "Fri", "Sat"
DayNames ==
  << <<83, 117, 110>>, <<77, 111, 110>>, <<84, 117, 101>>, <<87, 101, 100>>,
     <<84, 104, 117>>, <<70, 114, 105>>, <<83, 97, 116>> >>

\* "Jan" .. "Dec"
MonthNames ==
  << <<74, 97, 110>>, <<70, 101, 98>>, <<77, 97, 114>>, <<65, 112, 114>>,
     <<77, 97, 121>>, <<74, 117, 110>>, <<74, 117, 108>>, <<65, 117, 103>>,
     <<83, 101, 112>>, <<79, 99, 116>>, <<78, 111, 118>>, <<68, 101, 99>> >>

\* the days of the months of 2020
MonthDays == <<31, 29, 31, 30, 31, 30, 31, 31, 30, 31, 30, 31>>

\* the month (1 .. 12) and the day of the month of day d of 2020, d from 0
RECURSIVE MonthAndDay(_, _)
MonthAndDay(d, m) ==
  IF d < MonthDays[m] THEN <<m, d + 1>> ELSE MonthAndDay(d - MonthDays[m], m + 1)

\* two decimal digits
Digits2(n) == <<48 + (n \div 10), 48 + (n % 10)>>

\* Date.prototype.toString up to the seconds, of the instant s seconds
\* after the base
DateToString(s) ==
  LET d == s \div 86400
      md == MonthAndDay(d, 1)
      t == s % 86400
  IN DayNames[((3 + d) % 7) + 1] \o <<32>> \o MonthNames[md[1]] \o <<32>>
       \o Digits2(md[2]) \o <<32, 50, 48, 50, 48, 32>>
       \o Digits2(t \div 3600) \o <<58>> \o Digits2((t % 3600) \div 60)
       \o <<58>> \o Digits2(t % 60)

\* a > b on strings: the comparison of JavaScript, by code units
RECURSIVE StringGreater(_, _)
StringGreater(a, b) ==
  IF a = <<>> THEN FALSE
  ELSE IF b = <<>> THEN TRUE
  ELSE IF a[1] # b[1] THEN a[1] > b[1]
  ELSE StringGreater(Tail(a), Tail(b))

\* key.created > other.created as signWithSigner evaluates it; a comparison
\* with undefined is false
CreatedGreater(key, other) ==
  /\ IsSome(key.created)
  /\ IsSome(other.created)
  /\ StringGreater(DateToString(The(key.created)),
                   DateToString(The(other.created)))

(***************************************************************************)
(* The inputs of the model.                                                *)
(***************************************************************************)
\* the instants at which signing happens: 2h 0min 30s after the base, which
\* is 120.5 minutes
Nows == {(2 * 60 * minuteInMs) + 30000}

\* 'a' and 'b' as domain names
Domains == {<<97>>, <<98>>}

\* the values of the test target (tests/testEntity.ts): the bytes of "x"
TargetValues == {<<120, 0>>}

\* what the tests of corruption write: the domain with a space appended,
\* the value without its first byte, the timestamp plus one; and beside
\* them an empty domain, a domain with a code unit above 255 ("\u0142"), and
\* the timestamp plus 2^32
CorruptDomains == {<<97, 32>>, <<>>, <<322>>}
CorruptValues == {Tail(v) : v \in TargetValues}
Increments == {[wraps |-> 0, whole |-> 1], [wraps |-> 1, whole |-> 0]}

Hour == 60 * 60 * 1000

\* the Key objects of the model, as the tests build them around the time t
\* of signing: the public key of the signing pair created just before t,
\* the public key of another pair created exactly one hour after t, the
\* public key of the signing pair created two hours after t, a key whose
\* pem is '' and a key whose pem is a private key
KeyIds == 1 .. 5
KeyPool ==
  LET t == CHOOSE n \in Nows : TRUE
  IN << Key(Pem("PUBLIC", 1), t - 1),
        Key(Pem("PUBLIC", 2), t + Hour),
        Key(Pem("PUBLIC", 1), t + (2 * Hour)),
        Key(EmptyPem, t - 1),
        Key(Pem("PRIVATE", 1), t - 1) >>

Day == 24 * Hour

\* the private Key objects of the signers: of pair 1 created just before t,
\* of pair 2 created at the same time, of pair 2 created two days later
\* (a Friday) and of pair 2 created one hour later
PrivateKeyIds == 1 .. 4
PrivateKeyPool ==
  LET t == CHOOSE n \in Nows : TRUE
  IN << Key(Pem("PRIVATE", 1), t - 1),
        Key(Pem("PRIVATE", 2), t - 1),
        Key(Pem("PRIVATE", 2), t + (2 * Day)),
        Key(Pem("PRIVATE", 2), t + Hour) >>

\* the Signer objects of the model: domain, the ids of the public keys and
\* the ids of the private keys (None when the signer has no privateKeys).
\* Signers 1 to 3 are the ones verification is called with; all of them
\* are signed with.
SignerIds == 1 .. 3
SigningSignerIds == 1 .. 6
Signers ==
  << [domain |-> <<97>>, publicKeys |-> <<1>>, privateKeys |-> Some(<<1>>)],
     [domain |-> <<97>>, publicKeys |-> <<3, 2, 1>>,
      privateKeys |-> Some(<<1, 2>>)],
     [domain |-> <<97>>, publicKeys |-> <<4>>, privateKeys |-> None],
     [domain |-> <<97>>, publicKeys |-> <<1>>, privateKeys |-> Some(<<>>)],
     [domain |-> <<98>>, publicKeys |-> <<1>>, privateKeys |-> Some(<<1, 3>>)],
     [domain |-> <<97>>, publicKeys |-> <<1>>, privateKeys |-> Some(<<1, 4>>)] >>

\* the timestamps of serialized OWIDs: 120 minutes, 2^31 - 1 and 2^32 - 1
Timestamps ==
  { Num(120, 0), Num(2147483647, 0),
    [wraps |-> 1, whole |-> -1, frac |-> 0] }

\* the signatures of serialized OWIDs: the signature of pair 1 over the
\* message of target "x", version 1, domain "a" and timestamp 120; 64 bytes
\* that are the signature of nothing; and 63 bytes
SourceSignatures ==
  { [len |-> 64, pair |-> 1,
     msg |-> <<2, 0, 0, 0, 120, 0, 1, 97, 0, 120, 0, 0, 0>>],
    [len |-> 64, pair |-> 0, msg |-> <<>>],
    [len |-> 63, pair |-> 0, msg |-> <<>>] }

\* the versions of serialized OWIDs
SourceVersions == {1, 2}

\* the bytes a Reader is made of: the bytes that addToByteArray wrote, the
\* same followed by another byte, with another version byte, and cut short
\* at the marked lengths; and nothing at all
Cuts == {0, 1, 2, 3, 5, 7, 70}
Streams(b) ==
  {<<>>}
    \cup (IF Len(b) = 0 THEN {}
          ELSE {b, Append(b, 7), [b EXCEPT ![1] = 2]}
                 \cup {SubSeq(b, 1, n) : n \in {c \in Cuts : c < Len(b)}})

\* the PEM texts written to the pem of a Key: '', and the public keys of the
\* two pairs
WrittenPems == {EmptyPem} \cup {Pem("PUBLIC", p) : p \in KeyPairs}

\* the Key objects whose pem is written: the public keys of the two pairs
\* created before and one hour after the signing
WrittenKeyIds == 1 .. 2

\* the lists of keys a caller passes to verifyWithPublicKeys: the lists of
\* at most n distinct Key objects
RECURSIVE SeqsUpTo(_, _)
SeqsUpTo(S, n) ==
  IF n = 0 THEN {<<>>}
  ELSE LET shorter == SeqsUpTo(S, n - 1)
       IN shorter \cup
            {Append(s, x) : s \in {q \in shorter : Len(q) = n - 1}, x \in S}

Distinct(s) == \A i, j \in 1 .. Len(s) : s[i] = s[j] => i = j

KeyLists == {s \in SeqsUpTo(KeyIds, MaxKeys) : Distinct(s)}

\* the lists of Key objects that a serialized OWID is verified with
SerialKeyLists == {<<1>>, <<2>>, <<2, 1>>}

\* the signer services: a SignerCacheMap that holds a signer under the OWID
\* object, one that holds nothing under it, and a service whose get fails
Services ==
  {[kind |-> "map", entry |-> Some(s)] : s \in SignerIds}
    \cup {[kind |-> "map", entry |-> None], [kind |-> "failing", entry |-> None]}

(***************************************************************************)
(* The state.                                                              *)
(***************************************************************************)
VARIABLES
  owid,     \* the fields of the one OWID object
  keys,     \* the Key objects: pem, created and the cached _cryptoKey
  calls,    \* the calls in flight on the OWID: the stack of async frames
  last,     \* the call that has settled and whose caller has not yet resumed
  intact,   \* the key pair whose signWithCryptoKey left the OWID as it is now
  map,      \* SignerCacheHttp.map: the entries, keyed by object identity
  gets,     \* the get calls on the SignerCacheHttp
  fetches,  \* the outbound fetches issued so far, by (version, domain)
  made,     \* the number of Signer objects built from responses so far
  io,       \* the last conversion of the OWID to or from bytes or JSON
  legacy    \* the arrays handed to the version 1 verify, and what it made

vars ==
  <<owid, keys, calls, last, intact, map, gets, fetches, made, io, legacy>>
owidVars == <<owid, keys, calls, last, intact>>
cacheVars == <<map, gets, fetches, made>>
codecVars == <<io>>
legacyVars == <<legacy>>

CallIds == 1 .. MaxCalls

\* the fields of OWID o that signing writes and the message and the byte
\* form are made of
Signed(o) ==
  [version |-> o.version, domain |-> o.domain, timestamp |-> o.timestamp,
   signatureArray |-> o.signatureArray]

\* a call slot that is not in use
Idle == [op |-> "idle", stack |-> <<>>, ret |-> None, verified |-> <<>>,
         selected |-> <<>>, threw |-> FALSE, arg |-> None,
         hadSigner |-> FALSE, before |-> None, handed |-> <<>>]

NoLast == [op |-> "none"]

(***************************************************************************)
(* The canonical message.                                                  *)
(***************************************************************************)
\* Io.writeByteArrayNoLength
RECURSIVE writeByteArrayNoLength(_, _, _)
writeByteArrayNoLength(b, v, i) ==
  IF i > Len(v) THEN Bytes(b)
  ELSE LET r == writeByte(b, v[i])
       IN IF r.ok THEN writeByteArrayNoLength(r.b, v, i + 1) ELSE r

\* Io.writeByteArray
writeByteArray(b, v) ==
  writeByteArrayNoLength(writeUint32(b, Some(Num(Len(v), 0))).b, v, 1)

\* a target that contributes no bytes
addOwidDataNothing(target, b) == Bytes(b)

\* TestEntity.addOwidData
addOwidData(target, b) == writeByteArray(b, target.value)

\* addTargetAndOwidData that requires the domain and leaves it out of the
\* message
addTargetAndOwidDataNoDomain(o, b) ==
  IF IsSome(o.target)
  THEN LET t == addOwidData(The(o.target), b)
       IN IF ~t.ok THEN t
          ELSE IF ~(IsSome(o.domain) /\ Len(The(o.domain)) > 0) THEN Thrown(t.b)
          ELSE LET v == IF IsSome(o.version)
                        THEN writeByte(t.b, The(o.version))
                        ELSE Bytes(Append(t.b, 0))
               IN IF ~v.ok THEN v ELSE writeUint32(v.b, o.timestamp)
  ELSE Thrown(b)

\* addTargetAndOwidData that leaves the bytes of the target out of the
\* message
addTargetAndOwidDataNoTarget(o, b) ==
  IF IsSome(o.target)
  THEN LET t == addOwidData(The(o.target), b)
       IN IF ~t.ok THEN t
          ELSE IF ~(IsSome(o.domain) /\ Len(The(o.domain)) > 0) THEN Thrown(b)
          ELSE LET v == IF IsSome(o.version)
                        THEN writeByte(b, The(o.version))
                        ELSE Bytes(Append(b, 0))
               IN IF ~v.ok THEN v
                  ELSE LET d == writeString(v.b, o.domain)
                       IN IF ~d.ok THEN d ELSE writeUint32(d.b, o.timestamp)
  ELSE Thrown(b)

\* OWID.addTargetAndOwidData; Io.writeByte pushes an undefined version as
\* it is, and Uint8Array.from turns it into 0
addTargetAndOwidData(o, b) ==
  IF IsSome(o.target)
  THEN LET t == addOwidData(The(o.target), b)
       IN IF ~t.ok THEN t
          ELSE IF ~(IsSome(o.domain) /\ Len(The(o.domain)) > 0) THEN Thrown(t.b)
          ELSE LET v == IF IsSome(o.version)
                        THEN writeByte(t.b, The(o.version))
                        ELSE Bytes(Append(t.b, 0))
               IN IF ~v.ok THEN v
                  ELSE LET d == writeString(v.b, o.domain)
                       IN IF ~d.ok THEN d ELSE writeUint32(d.b, o.timestamp)
  ELSE Thrown(b)

(***************************************************************************)
(* The byte form and the JSON form of the OWID.  The signature of the model *)
(* is the record of who signed what; its bytes are the pair, the length of  *)
(* the message, the message and zeros up to the length of the signature,    *)
(* and bytes that are not of this form are the signature of nothing.        *)
(***************************************************************************)
NoSignature(len) == [len |-> len, pair |-> 0, msg |-> <<>>]

\* the Uint8Array of a signature
SigBytes(sig) ==
  [i \in 1 .. sig.len |->
     IF sig.pair = 0 THEN 0
     ELSE IF i = 1 THEN sig.pair
     ELSE IF i = 2 THEN Len(sig.msg)
     ELSE IF i - 2 <= Len(sig.msg) THEN sig.msg[i - 2]
     ELSE 0]

\* the signature that a Uint8Array is
SigOf(bytes) ==
  IF /\ Len(bytes) = 64
     /\ bytes[1] \in KeyPairs
     /\ bytes[2] <= 62
     /\ \A i \in (bytes[2] + 3) .. 64 : bytes[i] = 0
  THEN [len |-> 64, pair |-> bytes[1], msg |-> SubSeq(bytes, 3, bytes[2] + 2)]
  ELSE NoSignature(Len(bytes))

\* Io.writeSignature of the bytes of a signature; without a signature the
\* read of its length throws
writeSignature(b, signature) ==
  IF IsSome(signature) /\ Len(The(signature)) = 64
  THEN writeByteArrayNoLength(b, The(signature), 1)
  ELSE Thrown(b)

\* A base64 text is the sequence of the values 0..63 of its characters, with
\* 64 for '='.  btoa: three bytes make four characters, and what is left
\* over is padded.
RECURSIVE btoa(_)
btoa(b) ==
  IF Len(b) = 0 THEN <<>>
  ELSE IF Len(b) = 1
  THEN << b[1] \div 4, (b[1] % 4) * 16, 64, 64 >>
  ELSE IF Len(b) = 2
  THEN << b[1] \div 4, ((b[1] % 4) * 16) + (b[2] \div 16),
          (b[2] % 16) * 4, 64 >>
  ELSE << b[1] \div 4, ((b[1] % 4) * 16) + (b[2] \div 16),
          ((b[2] % 16) * 4) + (b[3] \div 64), b[3] % 64 >>
         \o btoa(SubSeq(b, 4, Len(b)))

\* Io.byteArrayToBase64
byteArrayToBase64(array) == btoa(array)

\* the bytes that the characters of a base64 text without padding stand for
RECURSIVE FromSextets(_)
FromSextets(t) ==
  IF Len(t) < 2 THEN <<>>
  ELSE IF Len(t) = 2
  THEN << (t[1] * 4) + (t[2] \div 16) >>
  ELSE IF Len(t) = 3
  THEN << (t[1] * 4) + (t[2] \div 16), ((t[2] % 16) * 16) + (t[3] \div 4) >>
  ELSE << (t[1] * 4) + (t[2] \div 16), ((t[2] % 16) * 16) + (t[3] \div 4),
          ((t[3] % 4) * 64) + t[4] >>
         \o FromSextets(SubSeq(t, 5, Len(t)))

\* atob: with a length that is a multiple of 4 up to two '=' at the end are
\* dropped; what is left must not be 1 beyond a multiple of 4 in length nor
\* hold a '='
atob(t) ==
  LET n == Len(t)
      pads == IF n % 4 = 0 /\ n > 0
              THEN IF t[n] = 64 THEN (IF t[n - 1] = 64 THEN 2 ELSE 1) ELSE 0
              ELSE 0
      text == SubSeq(t, 1, n - pads)
  IN IF Len(text) % 4 = 1 \/ \E i \in 1 .. Len(text) : text[i] = 64
     THEN Throw
     ELSE Ok(FromSextets(text))

\* new OWID(target): the fields as the class declares them
NewOwid(target) ==
  [version |-> None, domain |-> None, timestamp |-> None,
   signatureArray |-> None, _status |-> "NotStarted", _signer |-> None,
   target |-> target]

\* OWID.isSigned, as the condition it is to its callers: undefined without a
\* signatureArray is falsy
isSigned(o) ==
  IsSome(o.signatureArray) /\ The(o.signatureArray).len > 0

\* OWID.addToByteArray; an undefined version is pushed as it is and becomes
\* 0 in the Uint8Array of a Reader
addToByteArray(o, b) ==
  LET v == IF IsSome(o.version)
           THEN writeByte(b, The(o.version))
           ELSE Bytes(Append(b, 0))
  IN IF ~v.ok THEN v
     ELSE LET d == writeString(v.b, o.domain)
          IN IF ~d.ok THEN d
             ELSE writeSignature(
                    writeUint32(d.b, o.timestamp).b,
                    IF IsSome(o.signatureArray)
                    THEN Some(SigBytes(The(o.signatureArray)))
                    ELSE None)

\* what reading into an OWID gives: whether it returned, the OWID and the
\* reader as they are left
Decoded(ok, o, r) == [ok |-> ok, o |-> o, r |-> r]

\* OWID.fromByteArrayV1
fromByteArrayV1(o, b) ==
  LET d == readString(b)
      t == readDate(d.r)
      g == readSignature(t.r)
  IN Decoded(TRUE,
             [o EXCEPT !.domain = Some(d.v), !.timestamp = Some(t.v),
                       !.signatureArray = Some(SigOf(g.v))],
             g.r)

\* fromByteArray that reads every version as version 1
fromByteArrayAnyVersion(o, b) ==
  LET v == readByte(b)
  IN fromByteArrayV1([o EXCEPT !.version = v.v], v.r)

\* OWID.fromByteArray
fromByteArray(o, b) ==
  LET v == readByte(b)
      o1 == [o EXCEPT !.version = v.v]
  IN IF v.v = Some(1) THEN fromByteArrayV1(o1, v.r)
     ELSE Decoded(FALSE, o1, v.r)

\* the getter of OWID.signature; without a signatureArray the read of its
\* byteLength throws
signature(o) ==
  IF IsSome(o.signatureArray)
  THEN Ok(byteArrayToBase64(SigBytes(The(o.signatureArray))))
  ELSE Throw

\* a setter of signature that takes the characters of the text for bytes
setSignatureRaw(o, value) ==
  IF IsSome(value)
  THEN Ok([o EXCEPT !.signatureArray = Some(SigOf(The(value)))])
  ELSE Throw

\* the setter of OWID.signature, for an optional text; atob reads undefined
\* as the text "undefined", which is no base64 text
setSignature(o, value) ==
  IF IsSome(value) /\ atob(The(value)).ok
  THEN Ok([o EXCEPT !.signatureArray = Some(SigOf(atob(The(value)).v))])
  ELSE Throw

\* OWID.toJSON
toJSON(o) ==
  IF signature(o).ok
  THEN Ok([version |-> o.version, domain |-> o.domain,
           signature |-> Some(signature(o).v), timestamp |-> o.timestamp])
  ELSE Throw

\* the constructor of OWID for an optional source
Constructor(target, source) ==
  IF IsSome(source)
  THEN setSignature([NewOwid(target) EXCEPT
                       !.version = The(source).version,
                       !.domain = The(source).domain,
                       !.timestamp = The(source).timestamp],
                    The(source).signature)
  ELSE Ok(NewOwid(target))

\* no conversion yet.  A conversion leaves: its name (op); whether it
\* returned (ok); the OWID it was applied to (prev) and the OWID it left or
\* made (out); the bytes that addToByteArray wrote (b) and the OWID they
\* were written from (enc), which a fromByteArray that follows keeps; the
\* reader that fromByteArray was given, as it is left (reader); and the
\* JSON that the constructor was given (source); and the number of
\* conversions made so far (n)
NoIo ==
  [op |-> "none", n |-> 0, ok |-> TRUE, prev |-> NewOwid(None), out |-> NewOwid(None),
   b |-> <<>>, enc |-> NewOwid(None), reader |-> Reader(<<>>),
   source |-> None]

(***************************************************************************)
(* The synchronous segments.  An environment e carries what a segment may  *)
(* read and write: the OWID e.o, the Key objects e.keys, the stack of the  *)
(* call e.stack, the settled result e.ret that the frame on top of the     *)
(* stack is to receive, and what the call has done so far: the keys handed *)
(* to Crypto.verify (verified), the Key objects handed to                  *)
(* verifyWithPublicKey or, in signing, the private key picked (selected)   *)
(* and whether an error was thrown (threw).                                *)
(***************************************************************************)
Frame(fn, pc, signer, key, pend) ==
  [fn |-> fn, pc |-> pc, signer |-> signer, key |-> key, pend |-> pend]

Push(e, f) == [e EXCEPT !.stack = Append(@, f)]
Pop(e) == [e EXCEPT !.stack = SubSeq(@, 1, Len(@) - 1)]
Top(e) == e.stack[Len(e.stack)]
SetPc(e, pc) == [e EXCEPT !.stack[Len(e.stack)].pc = pc]

\* the running frame's promise settles with r
Settle(e, r) == [e EXCEPT !.ret = Some(r)]

\* an error is thrown in the running frame and leaves it
Raise(e) == [e EXCEPT !.ret = Some(Throw), !.threw = TRUE]

SetStatus(e, s) == [e EXCEPT !.o._status = s]

\* startVerify that leaves the recorded signer in place
startVerifyKeepSigner(e) == [e EXCEPT !.o._status = "Processing"]

\* OWID.startVerify
startVerify(e) == [e EXCEPT !.o._signer = None, !.o._status = "Processing"]

\* what is handed to Crypto.verify in environment e: the signature of the
\* OWID as it is, and with it the signature that the OWID had before the
\* signing that is suspended in Crypto.sign, if one is
Handed(e) == [signature |-> e.o.signatureArray, signing |-> e.signing]

\* verifyWithCrypto whose catch rethrows without recording Exception
verifyWithCryptoNoCatch(e, key) ==
  LET e1 == [e EXCEPT !.o._signer = None, !.o._status = "Processing"]
      data == addTargetAndOwidData(e1.o, <<>>)
  IN IF data.ok
     THEN Push([e1 EXCEPT !.verified = Append(@, key),
                          !.handed = Append(@, Handed(e1))],
               Frame("verifyWithCrypto", "ext", 0, 0,
                     {CryptoVerify(key, e1.o.signatureArray, data.b)}))
     ELSE Raise(e1)

\* OWID.verifyWithCrypto up to its await
verifyWithCrypto(e, key) ==
  LET e1 == startVerify(e)
      data == addTargetAndOwidData(e1.o, <<>>)
  IN IF data.ok
     THEN Push([e1 EXCEPT !.verified = Append(@, key),
                          !.handed = Append(@, Handed(e1))],
               Frame("verifyWithCrypto", "ext", 0, 0,
                     {CryptoVerify(key, e1.o.signatureArray, data.b)}))
     ELSE Raise(SetStatus(e1, "Exception"))

\* Key.getCryptoKey up to its await
getCryptoKey(e, k) ==
  LET cryptoKey == e.keys[k]._cryptoKey
  IN IF IsSome(cryptoKey) THEN Settle(e, Ok(The(cryptoKey)))
     ELSE IF e.keys[k].pem.type = "" THEN Raise(e)
     ELSE Push(e, Frame("getCryptoKey", "ext", 0, k, ImportKey(e.keys[k].pem)))

\* OWID.verifyWithPublicKey up to its await
verifyWithPublicKey(e, k) ==
  getCryptoKey(
    Push([startVerify(e) EXCEPT !.selected = Append(@, k)],
         Frame("verifyWithPublicKey", "await", 0, k, {})),
    k)

\* the loop with > in place of >=
RECURSIVE SelectKeyStrict(_, _, _, _)
SelectKeyStrict(ks, list, time, i) ==
  IF i > Len(list) THEN 0
  ELSE LET created == createdDate(ks[list[i]])
       IN IF /\ IsSome(time)
             /\ IsSome(created)
             /\ AtOrAfter(The(time), (The(created) - (60 * 60 * 1000)) + 1)
          THEN i
          ELSE SelectKeyStrict(ks, list, time, i + 1)

\* the loop without the check of the time: it takes the first key
SelectKeyAny(ks, list, time, i) == IF i > Len(list) THEN 0 ELSE i

\* the loop with a tolerance of three hours
RECURSIVE SelectKeyWide(_, _, _, _)
SelectKeyWide(ks, list, time, i) ==
  IF i > Len(list) THEN 0
  ELSE LET created == createdDate(ks[list[i]])
       IN IF /\ IsSome(time)
             /\ IsSome(created)
             /\ AtOrAfter(The(time), The(created) - (3 * 60 * 60 * 1000))
          THEN i
          ELSE SelectKeyWide(ks, list, time, i + 1)

\* the loop of OWID.verifyWithPublicKeys: the index of the key it takes
\* from position i on, 0 when it takes none; a comparison with NaN is false
RECURSIVE SelectKey(_, _, _, _)
SelectKey(ks, list, time, i) ==
  IF i > Len(list) THEN 0
  ELSE LET created == createdDate(ks[list[i]])
       IN IF /\ IsSome(time)
             /\ IsSome(created)
             /\ AtOrAfter(The(time), The(created) - (60 * 60 * 1000))
          THEN i
          ELSE SelectKey(ks, list, time, i + 1)

\* OWID.timeStampDate, as its getTime(); None is NaN
timeStampDate(o) ==
  IF IsSome(o.timestamp) THEN Some(getDateFromMinutes(The(o.timestamp)))
  ELSE None

\* verifyWithPublicKeys that returns KeyNotFound without recording it
verifyWithPublicKeysNoStatus(e, list) ==
  LET e1 == startVerify(e)
      i == SelectKey(e1.keys, list, timeStampDate(e1.o), 1)
  IN IF i > 0
     THEN verifyWithPublicKey(
            Push(e1, Frame("verifyWithPublicKeys", "adopt", 0, 0, {})), list[i])
     ELSE Settle(e1, Ok("KeyNotFound"))

\* OWID.verifyWithPublicKeys up to its return
verifyWithPublicKeys(e, list) ==
  LET e1 == startVerify(e)
      i == SelectKey(e1.keys, list, timeStampDate(e1.o), 1)
  IN IF i > 0
     THEN verifyWithPublicKey(
            Push(e1, Frame("verifyWithPublicKeys", "adopt", 0, 0, {})), list[i])
     ELSE Settle(SetStatus(e1, "KeyNotFound"), Ok("KeyNotFound"))

\* verifyWithSigner without the comparison of the domains
verifyWithSignerAnyDomain(e, s) ==
  verifyWithPublicKeys(
    Push(startVerify(e), Frame("verifyWithSigner", "await", s, 0, {})),
    Signers[s].publicKeys)

\* OWID.verifyWithSigner up to its await
verifyWithSigner(e, s) ==
  LET e1 == startVerify(e)
  IN IF Some(Signers[s].domain) # e1.o.domain
     THEN Raise(SetStatus(e1, "Exception"))
     ELSE verifyWithPublicKeys(
            Push(e1, Frame("verifyWithSigner", "await", s, 0, {})),
            Signers[s].publicKeys)

\* SignerService.get as the test services answer it
ServiceGet(service) ==
  IF service.kind = "map" THEN {Ok(service.entry)} ELSE {Throw}

\* verifyWithService without the call of startVerify
verifyWithServiceNoStart(e, service) ==
  Push(e, Frame("verifyWithService", "ext", 0, 0, ServiceGet(service)))

\* OWID.verifyWithService up to its await
verifyWithService(e, service) ==
  Push(startVerify(e),
       Frame("verifyWithService", "ext", 0, 0, ServiceGet(service)))

\* signWithCryptoKey that assembles the message before it writes the
\* version and the timestamp
signWithCryptoKeyStale(e, cryptoKey, now) ==
  LET e1 == [e EXCEPT !.o.version = Some(1),
                      !.o.timestamp = Some(getDateInMinutes(now)),
                      !.intact = None]
      data == addTargetAndOwidData(e.o, <<>>)
  IN IF data.ok
     THEN Push(e1, Frame("signWithCryptoKey", "ext", 0, 0,
                         {CryptoSign(cryptoKey, data.b)}))
     ELSE Raise(e1)

\* signWithCryptoKey that starts by resetting the status
signWithCryptoKeyResets(e, cryptoKey, now) ==
  LET e1 == [e EXCEPT !.o.version = Some(1),
                      !.o.timestamp = Some(getDateInMinutes(now)),
                      !.o._status = "NotStarted",
                      !.intact = None]
      data == addTargetAndOwidData(e1.o, <<>>)
  IN IF data.ok
     THEN Push(e1, Frame("signWithCryptoKey", "ext", 0, 0,
                         {CryptoSign(cryptoKey, data.b)}))
     ELSE Raise(e1)

\* signWithCryptoKey that writes the signature before it suspends
signWithCryptoKeyEager(e, cryptoKey, now) ==
  LET e1 == [e EXCEPT !.o.version = Some(1),
                      !.o.timestamp = Some(getDateInMinutes(now)),
                      !.intact = None]
      data == addTargetAndOwidData(e1.o, <<>>)
  IN IF data.ok
     THEN Push(IF CryptoSign(cryptoKey, data.b).ok
               THEN [e1 EXCEPT !.o.signatureArray =
                                 Some(CryptoSign(cryptoKey, data.b).v)]
               ELSE e1,
               Frame("signWithCryptoKey", "ext", 0, 0,
                     {CryptoSign(cryptoKey, data.b)}))
     ELSE Raise(e1)

\* OWID.signWithCryptoKey up to its await
signWithCryptoKey(e, cryptoKey, now) ==
  LET e1 == [e EXCEPT !.o.version = Some(1),
                      !.o.timestamp = Some(getDateInMinutes(now)),
                      !.intact = None]
      data == addTargetAndOwidData(e1.o, <<>>)
  IN IF data.ok
     THEN Push(e1, Frame("signWithCryptoKey", "ext", 0, 0,
                         {CryptoSign(cryptoKey, data.b)}))
     ELSE Raise(e1)

\* Crypto.importPrivateKey of a PEM text that getPemByteArray accepts: the
\* import as 'spki' with usage sign is left to the platform
ImportPrivateKey(pem) == {Throw, Ok(privateKey(pem.pair))}

\* OWID.signWithPemKey up to its await of Crypto.importPrivateKey, which
\* throws at once when the text has no content between PRIVATE KEY markers
signWithPemKey(e, pem) ==
  IF pem.type = "PRIVATE" /\ pem.pair # 0
  THEN Push(e, Frame("signWithPemKey", "ext", 0, 0, ImportPrivateKey(pem)))
  ELSE Raise(e)

\* the loop of OWID.signWithSigner: the private key it ends with, having
\* looked at list[i] onwards with newest in hand
RECURSIVE Newest(_, _, _)
Newest(list, newest, i) ==
  IF i > Len(list) THEN newest
  ELSE Newest(list,
              IF CreatedGreater(PrivateKeyPool[list[i]], PrivateKeyPool[newest])
              THEN list[i] ELSE newest,
              i + 1)

\* signWithSigner that writes the domain before it looks at the private keys
signWithSignerDomainFirst(e, s) ==
  LET privateKeys == Signers[s].privateKeys
      e0 == [e EXCEPT !.o.domain = Some(Signers[s].domain), !.intact = None]
  IN IF ~IsSome(privateKeys) \/ Len(The(privateKeys)) = 0
     THEN Raise(e0)
     ELSE LET newest == Newest(The(privateKeys), The(privateKeys)[1], 2)
          IN signWithPemKey(
               Push([e0 EXCEPT !.selected = Append(@, newest)],
                    Frame("signWithSigner", "await", s, 0, {})),
               PrivateKeyPool[newest].pem)

\* signWithSigner that leaves the domain of the OWID as it is
signWithSignerKeepDomain(e, s) ==
  LET privateKeys == Signers[s].privateKeys
  IN IF ~IsSome(privateKeys) \/ Len(The(privateKeys)) = 0
     THEN Raise(e)
     ELSE LET newest == Newest(The(privateKeys), The(privateKeys)[1], 2)
              e1 == [e EXCEPT !.intact = None,
                              !.selected = Append(@, newest)]
          IN signWithPemKey(
               Push(e1, Frame("signWithSigner", "await", s, 0, {})),
               PrivateKeyPool[newest].pem)

\* OWID.signWithSigner up to its await
signWithSigner(e, s) ==
  LET privateKeys == Signers[s].privateKeys
  IN IF ~IsSome(privateKeys) \/ Len(The(privateKeys)) = 0
     THEN Raise(e)
     ELSE LET newest == Newest(The(privateKeys), The(privateKeys)[1], 2)
              e1 == [e EXCEPT !.o.domain = Some(Signers[s].domain),
                              !.intact = None,
                              !.selected = Append(@, newest)]
          IN signWithPemKey(
               Push(e1, Frame("signWithSigner", "await", s, 0, {})),
               PrivateKeyPool[newest].pem)

(***************************************************************************)
(* The steps of a call on the OWID.                                        *)
(***************************************************************************)
\* call c is suspended in the await of its frame fn at pc
SuspendedAt(c, fn, pc) ==
  /\ calls[c].op # "idle"
  /\ Len(calls[c].stack) > 0
  /\ calls[c].stack[Len(calls[c].stack)].fn = fn
  /\ calls[c].stack[Len(calls[c].stack)].pc = pc

\* the signature that the OWID had when the signWithCryptoKey call that is
\* now suspended in Crypto.sign started; None when no call is suspended
\* there
Signing ==
  IF \E c \in CallIds : SuspendedAt(c, "signWithCryptoKey", "ext")
  THEN LET c == CHOOSE d \in CallIds :
                  SuspendedAt(d, "signWithCryptoKey", "ext")
       IN Some(The(calls[c].before).signatureArray)
  ELSE None

Env(c) ==
  [o |-> owid, keys |-> keys, stack |-> calls[c].stack, ret |-> calls[c].ret,
   verified |-> calls[c].verified, selected |-> calls[c].selected,
   threw |-> calls[c].threw, intact |-> intact,
   handed |-> calls[c].handed, signing |-> Signing]

\* the state after a segment of call c (described by record call) that
\* ended in environment e: the call is over when its last frame has settled
Commit(c, call, e) ==
  /\ owid' = e.o
  /\ keys' = e.keys
  /\ intact' = e.intact
  /\ IF e.stack = <<>>
     THEN /\ calls' = [calls EXCEPT ![c] = Idle]
          /\ last' = [op |-> call.op, arg |-> The(call.arg),
                      hadSigner |-> call.hadSigner,
                      before |-> The(call.before), ok |-> The(e.ret).ok,
                      v |-> IF The(e.ret).ok THEN The(e.ret).v ELSE "",
                      verified |-> e.verified, selected |-> e.selected,
                      threw |-> e.threw, handed |-> e.handed]
     ELSE /\ calls' = [calls EXCEPT ![c] =
                         [call EXCEPT !.stack = e.stack, !.ret = e.ret,
                                      !.verified = e.verified,
                                      !.selected = e.selected,
                                      !.threw = e.threw,
                                      !.handed = e.handed]]
          /\ last' = NoLast
  /\ UNCHANGED cacheVars
  /\ UNCHANGED legacyVars
  /\ UNCHANGED codecVars

\* the record of a call that starts now
NewCall(op, arg) ==
  [op |-> op, stack |-> <<>>, ret |-> None, verified |-> <<>>,
   selected |-> <<>>, threw |-> FALSE, arg |-> Some(arg),
   hadSigner |-> IsSome(owid._signer), before |-> Some(Signed(owid)),
   handed |-> <<>>]

Running(c) == calls[c].op # "idle"
Suspended(c, fn, pc) ==
  /\ Running(c)
  /\ Len(calls[c].stack) > 0
  /\ calls[c].stack[Len(calls[c].stack)].fn = fn
  /\ calls[c].stack[Len(calls[c].stack)].pc = pc

\* the frame on top receives the settled result: the result is consumed
Received(c) == [Env(c) EXCEPT !.ret = None]

\* a caller invokes owid.signWithCryptoKey(cryptoKey) at instant now
CallSignWithCryptoKey(c, cryptoKey, now) ==
  /\ ~Running(c)
  /\ Commit(c, NewCall("signWithCryptoKey", cryptoKey),
            signWithCryptoKey(Env(c), cryptoKey, now))

\* OWID.signWithCryptoKey after its await
ResumeSignWithCryptoKey(c) ==
  /\ Suspended(c, "signWithCryptoKey", "ext")
  /\ \E r \in Top(Env(c)).pend :
       Commit(c, calls[c],
              IF r.ok
              THEN Settle([Pop(Env(c)) EXCEPT !.o.signatureArray = Some(r.v),
                                              !.intact = Some(r.v.pair)],
                          Ok(""))
              ELSE Raise(Pop(Env(c))))

\* a caller invokes owid.signWithSigner(s)
CallSignWithSigner(c, s) ==
  /\ ~Running(c)
  /\ Commit(c, NewCall("signWithSigner", s), signWithSigner(Env(c), s))

\* OWID.signWithPemKey after its await of Crypto.importPrivateKey: it calls
\* signWithCryptoKey at instant now
ResumeImportPrivateKey(c, now) ==
  /\ Suspended(c, "signWithPemKey", "ext")
  /\ \E r \in Top(Env(c)).pend :
       Commit(c, calls[c],
              IF r.ok
              THEN signWithCryptoKey(SetPc(Env(c), "await"), r.v, now)
              ELSE Raise(Pop(Env(c))))

\* OWID.signWithPemKey after its await of signWithCryptoKey
ResumeSignWithPemKey(c) ==
  /\ Suspended(c, "signWithPemKey", "await")
  /\ IsSome(calls[c].ret)
  /\ Commit(c, calls[c], Settle(Pop(Received(c)), The(calls[c].ret)))

\* OWID.signWithSigner after its await of signWithPemKey
ResumeSignWithSigner(c) ==
  /\ Suspended(c, "signWithSigner", "await")
  /\ IsSome(calls[c].ret)
  /\ LET r == The(calls[c].ret)
         s == Top(Env(c)).signer
     IN Commit(c, calls[c],
               IF r.ok
               THEN Settle([Pop(Received(c)) EXCEPT !.o._signer = Some(s)],
                           Ok(""))
               ELSE Settle(Pop(Received(c)), Throw))

\* a caller invokes owid.verifyWithCrypto(key)
CallVerifyWithCrypto(c, key) ==
  /\ ~Running(c)
  /\ Commit(c, NewCall("verifyWithCrypto", key), verifyWithCrypto(Env(c), key))

\* OWID.verifyWithCrypto after its await
ResumeVerifyWithCrypto(c) ==
  /\ Suspended(c, "verifyWithCrypto", "ext")
  /\ \E r \in Top(Env(c)).pend :
       Commit(c, calls[c],
              IF r.ok
              THEN LET s == IF r.v THEN "Valid" ELSE "NotValid"
                   IN Settle(SetStatus(Pop(Env(c)), s), Ok(s))
              ELSE Raise(SetStatus(Pop(Env(c)), "Exception")))

\* a caller invokes owid.verifyWithPublicKey(key)
CallVerifyWithPublicKey(c, k) ==
  /\ ~Running(c)
  /\ Commit(c, NewCall("verifyWithPublicKey", k), verifyWithPublicKey(Env(c), k))

\* Key.getCryptoKey after its await: the imported key is recorded
ResumeGetCryptoKey(c) ==
  /\ Suspended(c, "getCryptoKey", "ext")
  /\ \E r \in Top(Env(c)).pend :
       LET k == Top(Env(c)).key
       IN Commit(c, calls[c],
                 IF r.ok
                 THEN Settle([Pop(Env(c)) EXCEPT !.keys[k]._cryptoKey = Some(r.v)],
                             Ok(r.v))
                 ELSE Raise(Pop(Env(c))))

\* OWID.verifyWithPublicKey after its await of key.getCryptoKey()
ResumeVerifyWithPublicKey(c) ==
  /\ Suspended(c, "verifyWithPublicKey", "await")
  /\ IsSome(calls[c].ret)
  /\ LET r == The(calls[c].ret)
     IN Commit(c, calls[c],
               IF r.ok
               THEN verifyWithCrypto(SetPc(Received(c), "adopt"), r.v)
               ELSE Settle(SetStatus(Pop(Received(c)), "Exception"), Throw))

\* a frame that returned the promise of an inner call settles as it did
Adopt(c) ==
  /\ Running(c)
  /\ Len(calls[c].stack) > 0
  /\ Top(Env(c)).pc = "adopt"
  /\ IsSome(calls[c].ret)
  /\ Commit(c, calls[c], Pop(Env(c)))

\* a caller invokes owid.verifyWithPublicKeys(list)
CallVerifyWithPublicKeys(c, list) ==
  /\ ~Running(c)
  /\ Commit(c, NewCall("verifyWithPublicKeys", list),
            verifyWithPublicKeys(Env(c), list))

\* a caller invokes owid.verifyWithSigner(s)
CallVerifyWithSigner(c, s) ==
  /\ ~Running(c)
  /\ Commit(c, NewCall("verifyWithSigner", s), verifyWithSigner(Env(c), s))

\* verifyWithSigner that records the signer only of a Valid OWID
ResumeVerifyWithSignerValidOnly(c) ==
  /\ Suspended(c, "verifyWithSigner", "await")
  /\ IsSome(calls[c].ret)
  /\ LET r == The(calls[c].ret)
         s == Top(Env(c)).signer
     IN Commit(c, calls[c],
               IF r.ok
               THEN Settle([Pop(Received(c)) EXCEPT !.o._signer =
                              IF r.v = "Valid" THEN Some(s) ELSE None],
                           Ok(r.v))
               ELSE Settle(SetStatus(Pop(Received(c)), "Exception"), Throw))

\* verifyWithSigner that does not record the signer
ResumeVerifyWithSignerNoSigner(c) ==
  /\ Suspended(c, "verifyWithSigner", "await")
  /\ IsSome(calls[c].ret)
  /\ LET r == The(calls[c].ret)
     IN Commit(c, calls[c],
               IF r.ok
               THEN Settle(Pop(Received(c)), Ok(r.v))
               ELSE Settle(SetStatus(Pop(Received(c)), "Exception"), Throw))

\* OWID.verifyWithSigner after its await of verifyWithPublicKeys
ResumeVerifyWithSigner(c) ==
  /\ Suspended(c, "verifyWithSigner", "await")
  /\ IsSome(calls[c].ret)
  /\ LET r == The(calls[c].ret)
         s == Top(Env(c)).signer
     IN Commit(c, calls[c],
               IF r.ok
               THEN Settle([Pop(Received(c)) EXCEPT !.o._signer = Some(s)], Ok(r.v))
               ELSE Settle(SetStatus(Pop(Received(c)), "Exception"), Throw))

\* a caller invokes owid.verifyWithService(service)
CallVerifyWithService(c, service) ==
  /\ ~Running(c)
  /\ Commit(c, NewCall("verifyWithService", service),
            verifyWithService(Env(c), service))

\* verifyWithService that treats a missing signer as an error
ResumeVerifyWithServiceThrows(c) ==
  /\ Suspended(c, "verifyWithService", "ext")
  /\ \E r \in Top(Env(c)).pend :
       Commit(c, calls[c],
              IF r.ok /\ IsSome(r.v)
              THEN verifyWithSigner(SetPc(Env(c), "adopt"), The(r.v))
              ELSE Raise(SetStatus(Pop(Env(c)), "Exception")))

\* OWID.verifyWithService after its await of service.get
ResumeVerifyWithService(c) ==
  /\ Suspended(c, "verifyWithService", "ext")
  /\ \E r \in Top(Env(c)).pend :
       Commit(c, calls[c],
              IF r.ok
              THEN IF IsSome(r.v)
                   THEN verifyWithSigner(SetPc(Env(c), "adopt"), The(r.v))
                   ELSE Settle(SetStatus(Pop(Env(c)), "SignerNotFound"),
                               Ok("SignerNotFound"))
              ELSE Raise(SetStatus(Pop(Env(c)), "Exception")))

\* the caller of a settled call resumes with its result
Return ==
  /\ last # NoLast
  /\ last' = NoLast
  /\ UNCHANGED <<owid, keys, calls, intact>>
  /\ UNCHANGED cacheVars
  /\ UNCHANGED legacyVars
  /\ UNCHANGED codecVars

(***************************************************************************)
(* What the owner of the OWID does to its public fields between calls.     *)
(***************************************************************************)
\* owid.domain = d (the Artifact constructor, and the 'corrupt domain' tests)
SetDomain(d) ==
  /\ owid' = [owid EXCEPT !.domain = Some(d)]
  /\ intact' = None
  /\ UNCHANGED <<keys, calls, last>>
  /\ UNCHANGED cacheVars
  /\ UNCHANGED legacyVars
  /\ UNCHANGED codecVars

\* owid.signatureArray = owid.signatureArray.slice(1) (test 'verify service
\* / fail'): one byte shorter, no longer a signature of anything
SliceSignature ==
  /\ IsSome(owid.signatureArray)
  /\ The(owid.signatureArray).len = 64
  /\ owid' = [owid EXCEPT !.signatureArray =
                Some([len |-> The(@).len - 1, pair |-> 0, msg |-> <<>>])]
  /\ intact' = None
  /\ UNCHANGED <<keys, calls, last>>
  /\ UNCHANGED cacheVars
  /\ UNCHANGED legacyVars
  /\ UNCHANGED codecVars

\* owid.timestamp += k (test 'corrupt time'), on a timestamp as signing
\* wrote it
AddToTimestamp(k) ==
  /\ IsSome(owid.timestamp)
  /\ \E now \in Nows : The(owid.timestamp) = getDateInMinutes(now)
  /\ owid' = [owid EXCEPT !.timestamp = Some(Plus(The(@), k))]
  /\ intact' = None
  /\ UNCHANGED <<keys, calls, last>>
  /\ UNCHANGED cacheVars
  /\ UNCHANGED legacyVars
  /\ UNCHANGED codecVars

\* owid.target.value = v (test 'corrupt data')
SetTargetValue(v) ==
  /\ IsSome(owid.target)
  /\ The(owid.target).value # v
  /\ owid' = [owid EXCEPT !.target = Some([value |-> v])]
  /\ intact' = None
  /\ UNCHANGED <<keys, calls, last>>
  /\ UNCHANGED cacheVars
  /\ UNCHANGED legacyVars
  /\ UNCHANGED codecVars

\* key.pem = pem (test 'verify signer / wrong key'), for Key object k
SetPem(k, pem) ==
  /\ keys[k].pem # pem
  /\ keys' = [keys EXCEPT ![k].pem = pem]
  /\ UNCHANGED <<owid, calls, last, intact>>
  /\ UNCHANGED cacheVars
  /\ UNCHANGED legacyVars
  /\ UNCHANGED codecVars

(***************************************************************************)
(* The conversions of the OWID, between calls.                             *)
(***************************************************************************)
\* the JSON of a serialized OWID, as a caller holds it: of domain "a", with
\* version 1 and any of the timestamps and signatures, or with another
\* version
Source(v, t, g) ==
  [version |-> Some(v), domain |-> Some(<<97>>), timestamp |-> Some(t),
   signature |-> Some(byteArrayToBase64(SigBytes(g)))]

Sources ==
  {Source(1, t, g) : t \in Timestamps, g \in SourceSignatures}
    \cup {Source(v, Num(120, 0), g) :
            v \in SourceVersions, g \in {h \in SourceSignatures : h.pair > 0}}

\* one more conversion may be made
MayConvert == io.n < MaxConversions

\* owid = new OWID(owid.target, source)
Construct(source) ==
  LET r == Constructor(owid.target, source)
  IN /\ MayConvert
     /\ r.ok
     /\ owid' = r.v
     /\ intact' = None
     /\ io' = [NoIo EXCEPT !.op = "constructor", !.out = r.v,
                           !.source = source, !.n = io.n + 1]
     /\ UNCHANGED <<keys, calls, last>>
     /\ UNCHANGED cacheVars
     /\ UNCHANGED legacyVars

\* owid = new OWID(owid.target, owid.toJSON())
Reconstruct ==
  LET source == toJSON(owid)
      r == Constructor(owid.target, Some(source.v))
  IN /\ MayConvert
     /\ source.ok
     /\ r.ok
     /\ owid' = r.v
     /\ intact' = None
     /\ io' = [NoIo EXCEPT !.op = "toJSON", !.prev = owid, !.out = r.v,
                           !.source = Some(source.v), !.n = io.n + 1]
     /\ UNCHANGED <<keys, calls, last>>
     /\ UNCHANGED cacheVars
     /\ UNCHANGED legacyVars

\* owid.signature = value
SetSignature(value) ==
  LET r == setSignature(owid, value)
  IN /\ MayConvert
     /\ io' = [NoIo EXCEPT !.op = "signature", !.ok = r.ok,
                           !.out = IF r.ok THEN r.v ELSE owid,
                           !.n = io.n + 1]
     /\ owid' = IF r.ok THEN r.v ELSE owid
     /\ intact' = None
     /\ UNCHANGED <<keys, calls, last>>
     /\ UNCHANGED cacheVars
     /\ UNCHANGED legacyVars

\* owid.addToByteArray([])
AddToByteArray ==
  LET r == addToByteArray(owid, <<>>)
  IN /\ MayConvert
     /\ io' = [NoIo EXCEPT !.op = "addToByteArray", !.ok = r.ok,
                           !.out = owid, !.b = r.b, !.enc = owid,
                           !.n = io.n + 1]
     /\ UNCHANGED owidVars
     /\ UNCHANGED cacheVars
     /\ UNCHANGED legacyVars

\* o.fromByteArray(new Reader(array)) for bytes made of what addToByteArray
\* has just written, where o is the OWID or, when fresh, a new OWID of its
\* target
FromByteArray(array, fresh) ==
  LET o == IF fresh THEN NewOwid(owid.target) ELSE owid
      r == fromByteArray(o, Reader(array))
  IN /\ MayConvert
     /\ io.op = "addToByteArray"
     /\ owid' = r.o
     /\ intact' = None
     /\ io' = [io EXCEPT !.op = "fromByteArray", !.ok = r.ok, !.prev = o,
                         !.out = r.o, !.reader = r.r, !.n = io.n + 1]
     /\ UNCHANGED <<keys, calls, last>>
     /\ UNCHANGED cacheVars
     /\ UNCHANGED legacyVars

(***************************************************************************)
(* SignerCacheHttp.  A cache key is an object with a version and a domain; *)
(* the Map holds its entries by the identity of the key object.  A Signer  *)
(* built from a response is a new object each time: the number it is given *)
(* is its identity.                                                        *)
(***************************************************************************)
\* the key objects handed to get: objects 1 and 2 are distinct objects with
\* equal version and domain
CacheKeyIds == 1 .. 3
CacheKeys ==
  << [version |-> 1, domain |-> <<97>>],
     [version |-> 1, domain |-> <<97>>],
     [version |-> 1, domain |-> <<98>>] >>

Urls == {CacheKeys[k] : k \in CacheKeyIds}

GetIds == 1 .. MaxGets

\* what fetch settles with: a network error, or a response whose status is
\* 2xx or not and whose body is the JSON of a signer, JSON without public
\* keys, or not JSON
Responses ==
  [ok : BOOLEAN, body : {"signer", "noPublicKeys", "notJson"}]

NoGet == [pc |-> "idle", key |-> 0, during |-> {}, ok |-> FALSE, signer |-> 0,
          response |-> None]

InFlight == {g \in GetIds : gets[g].pc \in {"fetch", "json"}}

\* SignerCacheHttp.get up to its first await: a hit returns the entry, a
\* miss issues the fetch
Get(g, k) ==
  /\ gets[g].pc = "idle"
  /\ IF IsSome(map[k])
     THEN /\ gets' = [gets EXCEPT ![g] =
                        [NoGet EXCEPT !.pc = "done", !.key = k, !.ok = TRUE,
                                      !.during = InFlight,
                                      !.signer = The(map[k])]]
          /\ UNCHANGED fetches
     ELSE /\ gets' = [gets EXCEPT ![g] =
                        [NoGet EXCEPT !.pc = "fetch", !.key = k,
                                      !.during = InFlight]]
          /\ fetches' = [fetches EXCEPT ![CacheKeys[k]] = @ + 1]
  /\ UNCHANGED <<map, made>>
  /\ UNCHANGED owidVars
  /\ UNCHANGED legacyVars
  /\ UNCHANGED codecVars

\* the fetch fails: get rejects
FetchFails(g) ==
  /\ gets[g].pc = "fetch"
  /\ gets' = [gets EXCEPT ![g].pc = "done", ![g].ok = FALSE]
  /\ UNCHANGED <<map, fetches, made>>
  /\ UNCHANGED owidVars
  /\ UNCHANGED legacyVars
  /\ UNCHANGED codecVars

\* the fetch answers: any response object is truthy, so get goes on to
\* response.json()
FetchResponds(g, response) ==
  /\ gets[g].pc = "fetch"
  /\ gets' = [gets EXCEPT ![g].pc = "json", ![g].response = Some(response)]
  /\ UNCHANGED <<map, fetches, made>>
  /\ UNCHANGED owidVars
  /\ UNCHANGED legacyVars
  /\ UNCHANGED codecVars

\* response.json() settles: a body that is not JSON rejects, a body without
\* publicKeys throws in forEach, and a signer is stored under the key object
JsonSettles(g) ==
  /\ gets[g].pc = "json"
  /\ IF The(gets[g].response).body = "signer"
     THEN /\ made' = made + 1
          /\ map' = [map EXCEPT ![gets[g].key] = Some(made + 1)]
          /\ gets' = [gets EXCEPT ![g].pc = "done", ![g].ok = TRUE,
                                  ![g].signer = made + 1]
     ELSE /\ gets' = [gets EXCEPT ![g].pc = "done", ![g].ok = FALSE]
          /\ UNCHANGED <<map, made>>
  /\ UNCHANGED fetches
  /\ UNCHANGED owidVars
  /\ UNCHANGED legacyVars
  /\ UNCHANGED codecVars

(***************************************************************************)
(* The verify of version 1 (v1.js) and the OWIDs it is given: a string, or *)
(* arrays of strings, undefined and arrays.  An array is an object: an     *)
(* element that is an array is the number of that array in                 *)
(* legacy.arrays, so that an array can hold itself.                        *)
(***************************************************************************)
maxVerifyDepth == 3

String == [type |-> "string"]
Undefined == [type |-> "undefined"]
Array(a) == [type |-> "object", array |-> a]

\* getOWIDsFromArray that stops one level earlier
RECURSIVE getOWIDsFromArrayEarly(_, _, _)
RECURSIVE forEachEarly(_, _, _, _, _)
getOWIDsFromArrayEarly(h, owids, depth) ==
  IF IsSome(depth) /\ ~(The(depth) < maxVerifyDepth) THEN Throw
  ELSE forEachEarly(h, owids, IF IsSome(depth) THEN The(depth) + 1 ELSE 1,
                    1, <<>>)

forEachEarly(h, owids, depth, i, c) ==
  IF i > Len(owids) THEN Ok(c)
  ELSE LET o == owids[i]
       IN IF o.type = "undefined" THEN forEachEarly(h, owids, depth, i + 1, c)
          ELSE IF o.type = "string"
          THEN forEachEarly(h, owids, depth, i + 1, c \o <<o>>)
          ELSE LET r == getOWIDsFromArrayEarly(h, h[o.array], Some(depth))
               IN IF r.ok THEN forEachEarly(h, owids, depth, i + 1, c \o r.v)
                  ELSE Throw

\* getOWIDsFromArray of v1.js, with the arrays h; depth is None when the
\* argument is not given.  getOWIDsFromString of a string of base 64
\* characters is the string alone
RECURSIVE getOWIDsFromArray(_, _, _)
RECURSIVE forEach(_, _, _, _, _)
RECURSIVE getOWIDsFromObject(_, _, _)
getOWIDsFromArray(h, owids, depth) ==
  IF IsSome(depth) /\ ~(The(depth) <= maxVerifyDepth) THEN Throw
  ELSE forEach(h, owids, IF IsSome(depth) THEN The(depth) + 1 ELSE 1,
               1, <<>>)

\* the forEach of getOWIDsFromArray from element i on, with c in hand
forEach(h, owids, depth, i, c) ==
  IF i > Len(owids) THEN Ok(c)
  ELSE LET o == owids[i]
       IN IF o.type = "undefined" THEN forEach(h, owids, depth, i + 1, c)
          ELSE IF o.type = "string"
          THEN forEach(h, owids, depth, i + 1, c \o <<o>>)
          ELSE LET r == getOWIDsFromObject(h, o, depth)
               IN IF r.ok THEN forEach(h, owids, depth, i + 1, c \o r.v)
                  ELSE Throw

\* getOWIDsFromObject of an array
getOWIDsFromObject(h, o, depth) ==
  getOWIDsFromArray(h, h[o.array], Some(depth))

\* getOWIDs
getOWIDs(h, owids) == getOWIDsFromArray(h, <<owids>>, None)

\* no array yet, and verify not called
NoLegacy == [arrays |-> <<>>, owids |-> None, list |-> None]

\* the arrays that a caller makes: at first of nothing or of a string,
\* then of the array made last, alone or with a string or undefined beside
\* it
NewArrays ==
  LET n == Len(legacy.arrays)
  IN IF n = 0 THEN {<<>>, <<String>>}
     ELSE {<<Array(n)>>, <<String, Array(n)>>, <<Array(n), String>>,
           <<Undefined, Array(n)>>}

\* a caller makes an array
MakeArray(elements) ==
  /\ Len(legacy.arrays) < MaxArrays
  /\ legacy' = [NoLegacy EXCEPT !.arrays = Append(legacy.arrays, elements)]
  /\ UNCHANGED owidVars
  /\ UNCHANGED cacheVars
  /\ UNCHANGED codecVars

\* a caller pushes the array made last, array a, onto itself: a.push(a)
PushArray(a) ==
  LET n == Len(legacy.arrays)
  IN /\ a = n
     /\ Len(legacy.arrays[a]) < 2
     /\ legacy' = [NoLegacy EXCEPT
                     !.arrays = [legacy.arrays EXCEPT
                                   ![a] = Append(@, Array(n))]]
     /\ UNCHANGED owidVars
     /\ UNCHANGED cacheVars
     /\ UNCHANGED codecVars

\* the values that verify is called with: a string or one of the arrays
Owids == {String} \cup {Array(a) : a \in 1 .. Len(legacy.arrays)}

\* owid.verify(owids), up to its call of getOWIDs
Verify(owids) ==
  /\ legacy' = [legacy EXCEPT !.owids = Some(owids),
                              !.list = Some(getOWIDs(legacy.arrays, owids))]
  /\ UNCHANGED owidVars
  /\ UNCHANGED cacheVars
  /\ UNCHANGED codecVars

(***************************************************************************)
(* The specifications.                                                     *)
(***************************************************************************)
Init ==
  /\ owid \in [version : {None}, domain : {None}, timestamp : {None},
               signatureArray : {None}, _status : {"NotStarted"},
               _signer : {None},
               target : {None} \cup {Some([value |-> v]) : v \in TargetValues}]
  /\ keys = KeyPool
  /\ calls = [c \in CallIds |-> Idle]
  /\ last = NoLast
  /\ intact = None
  /\ map = [k \in CacheKeyIds |-> None]
  /\ gets = [g \in GetIds |-> NoGet]
  /\ fetches = [u \in Urls |-> 0]
  /\ made = 0
  /\ io = NoIo
  /\ legacy = NoLegacy

\* nothing is in flight on the OWID
Quiet == last = NoLast /\ \A c \in CallIds : ~Running(c)

\* the slot a new call takes
Free(c) == ~Running(c) /\ \A d \in CallIds : d < c => Running(d)

\* one operation at a time on the OWID: a call starts, and the owner writes
\* a field, only when no call is in flight
Next ==
  \/ \E c \in CallIds, p \in KeyPairs, now \in Nows :
       Quiet /\ Free(c) /\ CallSignWithCryptoKey(c, privateKey(p), now)
  \/ \E c \in CallIds, now \in Nows :
       Quiet /\ Free(c) /\ CallSignWithCryptoKey(c, publicKey(1), now)
  \/ \E c \in CallIds, s \in SigningSignerIds :
       Quiet /\ Free(c) /\ CallSignWithSigner(c, s)
  \/ \E c \in CallIds, p \in KeyPairs :
       Quiet /\ Free(c) /\ CallVerifyWithCrypto(c, publicKey(p))
  \/ \E c \in CallIds :
       Quiet /\ Free(c) /\ CallVerifyWithCrypto(c, privateKey(1))
  \/ \E c \in CallIds, k \in KeyIds :
       Quiet /\ Free(c) /\ CallVerifyWithPublicKey(c, k)
  \/ \E c \in CallIds, list \in KeyLists :
       Quiet /\ Free(c) /\ CallVerifyWithPublicKeys(c, list)
  \/ \E c \in CallIds, s \in SignerIds :
       Quiet /\ Free(c) /\ CallVerifyWithSigner(c, s)
  \/ \E c \in CallIds, service \in Services :
       Quiet /\ Free(c) /\ CallVerifyWithService(c, service)
  \/ \E c \in CallIds : ResumeSignWithCryptoKey(c)
  \/ \E c \in CallIds, now \in Nows : ResumeImportPrivateKey(c, now)
  \/ \E c \in CallIds : ResumeSignWithPemKey(c)
  \/ \E c \in CallIds : ResumeSignWithSigner(c)
  \/ \E c \in CallIds : ResumeVerifyWithCrypto(c)
  \/ \E c \in CallIds : ResumeGetCryptoKey(c)
  \/ \E c \in CallIds : ResumeVerifyWithPublicKey(c)
  \/ \E c \in CallIds : Adopt(c)
  \/ \E c \in CallIds : ResumeVerifyWithSigner(c)
  \/ \E c \in CallIds : ResumeVerifyWithService(c)
  \/ Return
  \/ \E d \in Domains : Quiet /\ SetDomain(d)
  \/ Quiet /\ SliceSignature

Spec == Init /\ [][Next]_vars

\* signing, corruption of the fields by their owner, and verification with
\* a crypto key or a signer, one operation at a time
NextTamper ==
  \/ \E c \in CallIds, p \in KeyPairs, now \in Nows :
       Quiet /\ Free(c) /\ CallSignWithCryptoKey(c, privateKey(p), now)
  \/ \E c \in CallIds, p \in KeyPairs :
       Quiet /\ Free(c) /\ CallVerifyWithCrypto(c, publicKey(p))
  \/ \E c \in CallIds, s \in SignerIds :
       Quiet /\ Free(c) /\ CallVerifyWithSigner(c, s)
  \/ \E c \in CallIds : ResumeSignWithCryptoKey(c)
  \/ \E c \in CallIds : ResumeVerifyWithCrypto(c)
  \/ \E c \in CallIds : ResumeGetCryptoKey(c)
  \/ \E c \in CallIds : ResumeVerifyWithPublicKey(c)
  \/ \E c \in CallIds : Adopt(c)
  \/ \E c \in CallIds : ResumeVerifyWithSigner(c)
  \/ Return
  \/ \E d \in Domains \cup CorruptDomains : Quiet /\ SetDomain(d)
  \/ \E k \in Increments : Quiet /\ AddToTimestamp(k)
  \/ \E v \in TargetValues \cup CorruptValues : Quiet /\ SetTargetValue(v)
  \/ Quiet /\ SliceSignature

SpecTamper == Init /\ [][NextTamper]_vars

\* serialized OWIDs are constructed, signed, verified and converted to and
\* from bytes and JSON, one operation at a time
NextCodec ==
  \/ \E source \in Sources : Quiet /\ Construct(Some(source))
  \/ Quiet /\ Construct(None)
  \/ Quiet /\ Reconstruct
  \/ \E g \in SourceSignatures :
       Quiet /\ SetSignature(Some(byteArrayToBase64(SigBytes(g))))
  \/ Quiet /\ SetSignature(None)
  \/ Quiet /\ AddToByteArray
  \/ \E array \in Streams(IF io.ok THEN io.b ELSE <<>>), fresh \in BOOLEAN :
       Quiet /\ FromByteArray(array, fresh)
  \/ \E c \in CallIds, now \in Nows :
       Quiet /\ Free(c) /\ CallSignWithCryptoKey(c, privateKey(1), now)
  \/ \E c \in CallIds, p \in KeyPairs :
       Quiet /\ Free(c) /\ CallVerifyWithCrypto(c, publicKey(p))
  \/ \E c \in CallIds : ResumeSignWithCryptoKey(c)
  \/ \E c \in CallIds : ResumeVerifyWithCrypto(c)
  \/ Return

SpecCodec == Init /\ [][NextCodec]_vars

\* signing, verification with a Key object, and writes of the pem of a Key
\* by its owner, one operation at a time
NextKeys ==
  \/ \E c \in CallIds, now \in Nows :
       Quiet /\ Free(c) /\ CallSignWithCryptoKey(c, privateKey(1), now)
  \/ \E c \in CallIds, k \in WrittenKeyIds :
       Quiet /\ Free(c) /\ CallVerifyWithPublicKey(c, k)
  \/ \E c \in CallIds : ResumeSignWithCryptoKey(c)
  \/ \E c \in CallIds : ResumeGetCryptoKey(c)
  \/ \E c \in CallIds : ResumeVerifyWithPublicKey(c)
  \/ \E c \in CallIds : ResumeVerifyWithCrypto(c)
  \/ \E c \in CallIds : Adopt(c)
  \/ Return
  \/ \E d \in Domains : Quiet /\ SetDomain(d)
  \/ \E k \in WrittenKeyIds, pem \in WrittenPems : Quiet /\ SetPem(k, pem)

SpecKeys == Init /\ [][NextKeys]_vars

\* the OWID is only signed and verified, one call at a time: nobody writes
\* its fields directly
NextCalls ==
  \/ \E c \in CallIds, p \in KeyPairs, now \in Nows :
       Quiet /\ Free(c) /\ CallSignWithCryptoKey(c, privateKey(p), now)
  \/ \E c \in CallIds, s \in SigningSignerIds :
       Quiet /\ Free(c) /\ CallSignWithSigner(c, s)
  \/ \E c \in CallIds, p \in KeyPairs :
       Quiet /\ Free(c) /\ CallVerifyWithCrypto(c, publicKey(p))
  \/ \E c \in CallIds, s \in SignerIds :
       Quiet /\ Free(c) /\ CallVerifyWithSigner(c, s)
  \/ \E c \in CallIds : ResumeSignWithCryptoKey(c)
  \/ \E c \in CallIds, now \in Nows : ResumeImportPrivateKey(c, now)
  \/ \E c \in CallIds : ResumeSignWithPemKey(c)
  \/ \E c \in CallIds : ResumeSignWithSigner(c)
  \/ \E c \in CallIds : ResumeVerifyWithCrypto(c)
  \/ \E c \in CallIds : ResumeGetCryptoKey(c)
  \/ \E c \in CallIds : ResumeVerifyWithPublicKey(c)
  \/ \E c \in CallIds : Adopt(c)
  \/ \E c \in CallIds : ResumeVerifyWithSigner(c)
  \/ Return

SpecCalls == Init /\ [][NextCalls]_vars

\* an OWID of a domain is signed, written to bytes, read back from them and
\* verified with lists of Key objects, one operation at a time
NextSerial ==
  \/ Quiet /\ ~IsSome(owid.domain) /\ SetDomain(<<97>>)
  \/ \E c \in CallIds, now \in Nows :
       Quiet /\ Free(c) /\ CallSignWithCryptoKey(c, privateKey(1), now)
  \/ Quiet /\ AddToByteArray
  \/ Quiet /\ io.ok /\ FromByteArray(io.b, TRUE)
  \/ \E c \in CallIds, list \in SerialKeyLists :
       Quiet /\ Free(c) /\ CallVerifyWithPublicKeys(c, list)
  \/ \E c \in CallIds : ResumeSignWithCryptoKey(c)
  \/ \E c \in CallIds : ResumeGetCryptoKey(c)
  \/ \E c \in CallIds : ResumeVerifyWithCrypto(c)
  \/ \E c \in CallIds : ResumeVerifyWithPublicKey(c)
  \/ \E c \in CallIds : Adopt(c)
  \/ Return

SpecSerial == Init /\ [][NextSerial]_vars

\* arrays of OWIDs are made and handed to the verify of version 1
NextLegacy ==
  \/ \E elements \in NewArrays : MakeArray(elements)
  \/ \E a \in 1 .. MaxArrays : PushArray(a)
  \/ \E owids \in Owids : Verify(owids)

InitLegacy == Init /\ owid.target = None

SpecLegacy == InitLegacy /\ [][NextLegacy]_vars

\* a step of a call is taken once the caller of a settled call has resumed
Ready == last = NoLast

\* no signing call is in flight
NotSigning ==
  \A c \in CallIds : calls[c].op \notin {"signWithCryptoKey", "signWithSigner"}

\* an OWID of domain "a" is signed, one call at a time, and verified by
\* calls that overlap: a verification starts while another is in flight
NextOverlap ==
  \/ Quiet /\ ~IsSome(owid.domain) /\ SetDomain(<<97>>)
  \/ \E c \in CallIds, now \in Nows :
       Quiet /\ Free(c) /\ CallSignWithCryptoKey(c, privateKey(1), now)
  \/ \E c \in CallIds, key \in {publicKey(1), publicKey(2), privateKey(1)} :
       Ready /\ NotSigning /\ Free(c) /\ CallVerifyWithCrypto(c, key)
  \/ \E c \in CallIds :
       Ready /\ NotSigning /\ Free(c) /\ CallVerifyWithPublicKey(c, 1)
  \/ \E c \in CallIds :
       Ready /\ NotSigning /\ Free(c) /\ CallVerifyWithSigner(c, 1)
  \/ \E c \in CallIds : Ready /\ ResumeSignWithCryptoKey(c)
  \/ \E c \in CallIds : Ready /\ ResumeVerifyWithCrypto(c)
  \/ \E c \in CallIds : Ready /\ ResumeGetCryptoKey(c)
  \/ \E c \in CallIds : Ready /\ ResumeVerifyWithPublicKey(c)
  \/ \E c \in CallIds : Ready /\ Adopt(c)
  \/ \E c \in CallIds : Ready /\ ResumeVerifyWithSigner(c)
  \/ Return

SpecOverlap == Init /\ [][NextOverlap]_vars

\* an OWID of domain "a" is signed and verified by calls that overlap: a
\* verification starts while a signing is in flight, and a signing while a
\* verification is; one signing at a time
NextSignOverlap ==
  \/ Quiet /\ ~IsSome(owid.domain) /\ SetDomain(<<97>>)
  \/ \E c \in CallIds, p \in KeyPairs, now \in Nows :
       /\ Ready /\ NotSigning /\ Free(c)
       /\ CallSignWithCryptoKey(c, privateKey(p), now)
  \/ \E c \in CallIds, p \in KeyPairs :
       Ready /\ Free(c) /\ CallVerifyWithCrypto(c, publicKey(p))
  \/ \E c \in CallIds :
       Ready /\ Free(c) /\ CallVerifyWithPublicKey(c, 1)
  \/ \E c \in CallIds : Ready /\ ResumeSignWithCryptoKey(c)
  \/ \E c \in CallIds : Ready /\ ResumeVerifyWithCrypto(c)
  \/ \E c \in CallIds : Ready /\ ResumeGetCryptoKey(c)
  \/ \E c \in CallIds : Ready /\ ResumeVerifyWithPublicKey(c)
  \/ \E c \in CallIds : Ready /\ Adopt(c)
  \/ Return

SpecSignOverlap == Init /\ [][NextSignOverlap]_vars

\* the get calls on the HTTP signer cache, in any interleaving
NextCache ==
  \/ \E g \in GetIds, k \in CacheKeyIds : Get(g, k)
  \/ \E g \in GetIds : FetchFails(g)
  \/ \E g \in GetIds, response \in Responses : FetchResponds(g, response)
  \/ \E g \in GetIds : JsonSettles(g)

SpecCache == Init /\ [][NextCache]_vars

(***************************************************************************)
(* What the claims speak of.                                               *)
(***************************************************************************)
VerifyOps ==
  {"verifyWithCrypto", "verifyWithPublicKey", "verifyWithPublicKeys",
   "verifyWithSigner", "verifyWithService"}

Terminal == {"Valid", "NotValid", "SignerNotFound", "KeyNotFound", "Exception"}

\* a call of one of the operations ops has just settled
Settled(ops) == last.op \in ops

\* what the settled call gave its caller: the status, or "Exception" for a
\* rejected promise
Outcome == IF last.ok THEN last.v ELSE "Exception"

\* key k is eligible by time: its createdDate less one hour is not after
\* the instant of the OWID's timestamp
Eligible(k) ==
  /\ IsSome(createdDate(keys[k]))
  /\ IsSome(timeStampDate(owid))
  /\ AtOrAfter(The(timeStampDate(owid)), The(createdDate(keys[k])) - 3600000)

\* the position of the first eligible key of a list, 0 when there is none
FirstEligible(list) ==
  IF \E i \in 1 .. Len(list) : Eligible(list[i])
  THEN CHOOSE i \in 1 .. Len(list) :
         Eligible(list[i]) /\ \A j \in 1 .. (i - 1) : ~Eligible(list[j])
  ELSE 0

\* the results that verifying the OWID as it is with Key k alone can have
KeyResults(k) ==
  LET imports == IF IsSome(keys[k]._cryptoKey)
                 THEN {Ok(The(keys[k]._cryptoKey))}
                 ELSE ImportKey(keys[k].pem)
      data == addTargetAndOwidData(owid, <<>>)
  IN { IF r.ok /\ data.ok
       THEN LET cv == CryptoVerify(r.v, owid.signatureArray, data.b)
            IN IF cv.ok THEN (IF cv.v THEN "Valid" ELSE "NotValid")
               ELSE "Exception"
       ELSE "Exception" : r \in imports }

(***************************************************************************)
(* The claims.                                                             *)
(***************************************************************************)
\* C1: when signWithCryptoKey(sk) has fulfilled and neither the OWID nor its
\* target has been written since, verifyWithCrypto(pk) with the public key
\* of the same pair returns Valid and leaves status = Valid.
C1_SignVerifyRoundTrip ==
  (/\ Settled({"verifyWithCrypto"})
   /\ IsSome(intact)
   /\ last.arg = publicKey(The(intact)))
    => (last.ok /\ last.v = "Valid" /\ owid._status = "Valid")

C1_Witness ==
  /\ Settled({"verifyWithCrypto"})
  /\ IsSome(intact)
  /\ last.arg = publicKey(The(intact))

C4_TerminalStatus ==
  Settled(VerifyOps)
    => /\ owid._status \in Terminal
       /\ last.ok => owid._status = last.v

C4_Witness ==
  /\ Settled({"verifyWithService"})
  /\ last.ok
  /\ last.v = "KeyNotFound"

\* C5: when an error is thrown inside a verifyWith* call, the call rejects,
\* status is Exception and the recorded signer is undefined as it settles.
C5_FatalErrors ==
  (Settled(VerifyOps) /\ (last.threw \/ ~last.ok))
    => /\ ~last.ok
       /\ owid._status = "Exception"
       /\ owid._signer = None

\* an import fails in verifyWithSigner on an OWID that had a signer recorded
C5_Witness ==
  /\ Settled({"verifyWithSigner"})
  /\ last.threw
  /\ last.hadSigner
  /\ last.selected # <<>>
  /\ last.verified = <<>>

\* C6: when no key of the list is eligible by time (the empty list too),
\* verifyWithPublicKeys fulfils with KeyNotFound, status is KeyNotFound and
\* no key is imported or used to verify.
C6_NoEligibleKey ==
  (Settled({"verifyWithPublicKeys"}) /\ FirstEligible(last.arg) = 0)
    => /\ last.ok
       /\ ~last.threw
       /\ last.v = "KeyNotFound"
       /\ owid._status = "KeyNotFound"
       /\ last.verified = <<>>
       /\ last.selected = <<>>

\* a signed OWID and a list of keys none of which is eligible
C6_Witness ==
  /\ Settled({"verifyWithPublicKeys"})
  /\ IsSome(owid.signatureArray)
  /\ Len(last.arg) > 0
  /\ FirstEligible(last.arg) = 0

\* the only key of the list was created two hours after the OWID's timestamp
KeyTooNew ==
  /\ Settled({"verifyWithPublicKeys"})
  /\ Len(last.arg) = 1
  /\ IsSome(timeStampDate(owid))
  /\ The(timeStampDate(owid)).wraps = 0
  /\ createdDate(keys[last.arg[1]]) =
       Some(The(timeStampDate(owid)).ms + (2 * 60 * 60 * 1000))

\* C7 as stated: with a single key created two hours after the OWID's
\* timestamp, verifyWithPublicKeys returns NotValid.
C7_KeyTooNewNotValid == KeyTooNew => (last.ok /\ last.v = "NotValid")

\* C7 as amended: with a single key created two hours after the OWID's
\* timestamp, verifyWithPublicKeys returns KeyNotFound.
C7_KeyTooNewKeyNotFound == KeyTooNew => (last.ok /\ last.v = "KeyNotFound")

C7_Witness == KeyTooNew /\ IsSome(owid.signatureArray)

\* C8: when the service has no signer for the OWID, verifyWithService
\* fulfils with SignerNotFound, status is SignerNotFound, no signer is
\* recorded, and no key is selected or used to verify.
C8_SignerNotFound ==
  (/\ Settled({"verifyWithService"})
   /\ last.arg.kind = "map"
   /\ last.arg.entry = None)
    => /\ last.ok
       /\ last.v = "SignerNotFound"
       /\ owid._status = "SignerNotFound"
       /\ owid._signer = None
       /\ last.selected = <<>>
       /\ last.verified = <<>>

C8_Witness ==
  /\ Settled({"verifyWithService"})
  /\ last.arg.kind = "map"
  /\ last.arg.entry = None
  /\ last.hadSigner

\* the signer that the settled call handed to verifyWithSigner, if it did
SignerUsed ==
  IF last.op = "verifyWithSigner" THEN Some(last.arg)
  ELSE IF last.op = "verifyWithService" THEN last.arg.entry
  ELSE None

\* C9: when verifyWithSigner(signer), called directly or by
\* verifyWithService, returns without throwing, owid.signer is that signer
\* and owid.status is the status returned, whatever it is.
C9_SignerRecorded ==
  (/\ Settled({"verifyWithSigner", "verifyWithService"})
   /\ last.ok
   /\ IsSome(SignerUsed))
    => /\ owid._signer = SignerUsed
       /\ owid._status = last.v

C9_Witness ==
  /\ Settled({"verifyWithService"})
  /\ last.ok
  /\ IsSome(SignerUsed)
  /\ last.v = "NotValid"

\* C10: when verifyWithCrypto, verifyWithPublicKey or verifyWithPublicKeys
\* settles, owid.signer is undefined, also when a signer was recorded before.
C10_SignerCleared ==
  Settled({"verifyWithCrypto", "verifyWithPublicKey", "verifyWithPublicKeys"})
    => owid._signer = None

C10_Witness ==
  /\ Settled({"verifyWithPublicKeys"})
  /\ last.hadSigner
  /\ last.v = "KeyNotFound"

\* two get calls of which one started while the other was in flight
Overlap(g, h) == g \in gets[h].during \/ h \in gets[g].during

\* the get calls made so far for a version and domain
GetsFor(u) == {g \in GetIds : gets[g].pc # "idle" /\ CacheKeys[gets[g].key] = u}

\* C3: get calls for the same (version, domain) that overlap in time cause
\* exactly one fetch, and all of them receive the same Signer object.
C3_CacheCoalescing ==
  \A u \in Urls :
    (GetsFor(u) # {} /\ \A g, h \in GetsFor(u) : g # h => Overlap(g, h))
      => /\ fetches[u] = 1
         /\ \A g, h \in GetsFor(u) :
              (/\ gets[g].pc = "done" /\ gets[g].ok
               /\ gets[h].pc = "done" /\ gets[h].ok)
                => gets[g].signer = gets[h].signer

\* C11: verifyWithSigner(signer) with signer.domain different from the
\* OWID's domain rejects, leaves status = Exception and the signer
\* undefined, and hands no public key of the signer to verification.
C11_DomainMismatch ==
  (/\ Settled({"verifyWithSigner"})
   /\ Some(Signers[last.arg].domain) # owid.domain)
    => /\ ~last.ok
       /\ owid._status = "Exception"
       /\ owid._signer = None
       /\ last.selected = <<>>
       /\ last.verified = <<>>

\* a signed OWID with a signer recorded whose domain was then changed
C11_Witness ==
  /\ Settled({"verifyWithSigner"})
  /\ IsSome(owid.domain)
  /\ Some(Signers[last.arg].domain) # owid.domain
  /\ IsSome(owid.signatureArray)
  /\ last.hadSigner

\* a verifyWith* call is in flight: entered and its promise not yet settled
InFlightVerify(c) == Running(c) /\ calls[c].op \in VerifyOps

\* C12 as stated: from the entry of a verifyWith* call until the promise of
\* that call settles, status is Processing and signer is undefined.
C12_ProcessingUntilSettled ==
  \A c \in CallIds :
    InFlightVerify(c) => (owid._status = "Processing" /\ owid._signer = None)

\* C12 as amended: while a verifyWith* call is in flight, status is
\* Processing, with signer undefined, until the verification is complete;
\* the terminal status is written by the innermost step, which can be
\* before the promise of the call settles, and from then on the status
\* keeps that value until the promise settles.
C12_ProcessingUntilComplete ==
  [][\A c \in CallIds :
       InFlightVerify(c)
         => /\ owid._status \in {"Processing"} \cup Terminal
            /\ owid._status = "Processing" => owid._signer = None
            /\ owid._status # "Processing" => owid'._status = owid._status]_vars

\* verifyWithService is still in flight after verifyWithSigner has recorded
\* the signer and the status Valid
C12_Witness ==
  \E c \in CallIds :
    /\ InFlightVerify(c)
    /\ calls[c].op = "verifyWithService"
    /\ owid._status = "Valid"
    /\ owid._signer # None

\* the private key of a list with the latest creation time, the earliest
\* in the list among those that share it
NewestPrivateKey(list) ==
  LET at(i) == The(createdDate(PrivateKeyPool[list[i]]))
  IN list[CHOOSE i \in 1 .. Len(list) :
            /\ \A j \in 1 .. Len(list) : at(j) <= at(i)
            /\ \A j \in 1 .. (i - 1) : at(j) < at(i)]

\* C13: signWithSigner signs with the private key whose creation time is
\* the latest among signer.privateKeys, and with the earliest in the list
\* among several that share the latest time.
C13_NewestPrivateKey ==
  (Settled({"signWithSigner"}) /\ last.ok)
    => LET k == NewestPrivateKey(The(Signers[last.arg].privateKeys))
       IN /\ last.selected = <<k>>
          /\ The(owid.signatureArray).pair = PrivateKeyPool[k].pem.pair

\* C14: when the promise of signWithSigner(signer) fulfils, the domain of
\* the OWID is signer.domain, version is 1, the signature of the message as
\* it is now has been stored (isSigned) and owid.signer is that signer.
C14_SignWithSignerPostState ==
  (Settled({"signWithSigner"}) /\ last.ok)
    => /\ owid.domain = Some(Signers[last.arg].domain)
       /\ owid.version = Some(1)
       /\ IsSome(owid.signatureArray)
       /\ The(owid.signatureArray).len > 0
       /\ Bytes(The(owid.signatureArray).msg) = addTargetAndOwidData(owid, <<>>)
       /\ IsSome(intact)
       /\ owid._signer = Some(last.arg)

\* a signer of another domain than the OWID had signs an OWID that had
\* another signer recorded
C14_Witness ==
  /\ Settled({"signWithSigner"})
  /\ last.ok
  /\ last.hadSigner
  /\ Signers[last.arg].domain = <<98>>

\* the signer has no privateKeys, or an empty list of them
NoPrivateKeys(s) ==
  ~IsSome(Signers[s].privateKeys) \/ The(Signers[s].privateKeys) = <<>>

\* C15: signWithSigner on a signer whose privateKeys is absent or empty
\* throws, and every field of the OWID (version, domain, timestamp,
\* signature, signer, status) is as it was before the call.
C15_MissingPrivateKeys ==
  [][(/\ last' # last
      /\ last'.op = "signWithSigner"
      /\ NoPrivateKeys(last'.arg))
       => (~last'.ok /\ last'.threw /\ owid' = owid)]_vars

\* the call is made on a verified OWID with its signer recorded
C15_Witness ==
  /\ Settled({"signWithSigner"})
  /\ NoPrivateKeys(last.arg)
  /\ ~last.ok
  /\ owid._status = "Valid"
  /\ owid._signer # None
  /\ owid._signer # Some(last.arg)

\* the settled call handed exactly one key, a key that can verify, to
\* Crypto.verify, and the bytes the OWID holds as signature are not the
\* signature of the assembled message by the pair of that key
SignatureMismatch ==
  /\ Settled(VerifyOps)
  /\ Len(last.verified) = 1
  /\ "verify" \in last.verified[1].usages
  /\ IsSome(owid.signatureArray)
  /\ addTargetAndOwidData(owid, <<>>).ok
  /\ ~(/\ The(owid.signatureArray).len = 64
       /\ The(owid.signatureArray).pair = last.verified[1].pair
       /\ The(owid.signatureArray).msg = addTargetAndOwidData(owid, <<>>).b)

\* C16: when the signature bytes of the OWID are not a valid signature of
\* the assembled message under the selected public key (a signature cut to
\* 63 bytes included), verification fulfils with NotValid, status is
\* NotValid, nothing is thrown, and through verifyWithSigner or
\* verifyWithService the signer is recorded all the same.
C16_MismatchIsNotValid ==
  SignatureMismatch
    => /\ last.ok
       /\ ~last.threw
       /\ last.v = "NotValid"
       /\ owid._status = "NotValid"
       /\ IsSome(SignerUsed) => owid._signer = SignerUsed

\* the signature was cut to 63 bytes and the OWID verified through a service
C16_Witness ==
  /\ SignatureMismatch
  /\ last.op = "verifyWithService"
  /\ The(owid.signatureArray).len = 63

\* the OWID holds a whole signature and the settled call was
\* verifyWithCrypto with the public key of the pair that made it
VerifiedWithMatchingKey ==
  /\ Settled({"verifyWithCrypto"})
  /\ IsSome(owid.signatureArray)
  /\ The(owid.signatureArray).len = 64
  /\ last.arg = publicKey(The(owid.signatureArray).pair)

\* the message that was signed is the message of the OWID as it is but for
\* its domain, which was another one
DomainChanged ==
  \E d \in Domains \cup CorruptDomains :
    /\ Some(d) # owid.domain
    /\ addTargetAndOwidData([owid EXCEPT !.domain = Some(d)], <<>>) =
         Bytes(The(owid.signatureArray).msg)

\* a string that Io.writeString accepts
Encodable(d) ==
  /\ IsSome(d)
  /\ The(d) # <<>>
  /\ \A i \in 1 .. Len(The(d)) : The(d)[i] <= 255

\* C17 as stated: after a successful sign, changing the domain to any other
\* value makes verifyWithCrypto with the matching public key return NotValid.
C17_DomainTamperingNotValid ==
  (VerifiedWithMatchingKey /\ DomainChanged)
    => (last.ok /\ last.v = "NotValid")

\* C17 as amended: after a successful sign and a change of the domain,
\* verifyWithCrypto with the matching public key returns NotValid when the
\* new domain is a non-empty string of code units up to 255, and rejects,
\* with status Exception, when it is not; it never returns Valid.
C17_DomainTamperingDetected ==
  (VerifiedWithMatchingKey /\ DomainChanged)
    => IF Encodable(owid.domain)
       THEN last.ok /\ last.v = "NotValid" /\ owid._status = "NotValid"
       ELSE ~last.ok /\ owid._status = "Exception"

\* the domain of a signed OWID was replaced by the empty string
C17_Witness ==
  /\ VerifiedWithMatchingKey
  /\ DomainChanged
  /\ owid.domain = Some(<<>>)

\* the message that was signed is the message of the OWID as it is but for
\* its timestamp, which was the one signing wrote, and the timestamp is now
\* that one plus a nonzero integer
TimestampChanged ==
  /\ IsSome(owid.timestamp)
  /\ \E now \in Nows, k \in Increments :
       /\ The(owid.timestamp) = Plus(getDateInMinutes(now), k)
       /\ addTargetAndOwidData(
            [owid EXCEPT !.timestamp = Some(getDateInMinutes(now))], <<>>) =
            Bytes(The(owid.signatureArray).msg)

\* C18: after a successful sign, adding any nonzero integer to the
\* timestamp makes verifyWithCrypto with the matching public key return
\* NotValid.
C18_TimestampTamperingNotValid ==
  (VerifiedWithMatchingKey /\ TimestampChanged)
    => (last.ok /\ last.v = "NotValid")

\* the message that was signed is the message of the OWID as it is but for
\* the value of its target, which was another one
TargetChanged ==
  /\ IsSome(owid.target)
  /\ \E v \in TargetValues \cup CorruptValues :
       /\ v # The(owid.target).value
       /\ addTargetAndOwidData(
            [owid EXCEPT !.target = Some([value |-> v])], <<>>) =
            Bytes(The(owid.signatureArray).msg)

\* C19: after a successful sign, a change of the bytes the target
\* contributes through addOwidData makes verification with the matching
\* public key return NotValid.
C19_PayloadTamperingNotValid ==
  (/\ Settled(VerifyOps)
   /\ IsSome(owid.signatureArray)
   /\ The(owid.signatureArray).len = 64
   /\ last.verified = <<publicKey(The(owid.signatureArray).pair)>>
   /\ TargetChanged)
    => (last.ok /\ last.v = "NotValid" /\ owid._status = "NotValid")

\* the value of the target of a signed OWID lost its first byte and the
\* OWID was verified with its signer
C19_Witness ==
  /\ Settled({"verifyWithSigner"})
  /\ IsSome(owid.signatureArray)
  /\ The(owid.signatureArray).len = 64
  /\ last.verified = <<publicKey(The(owid.signatureArray).pair)>>
  /\ TargetChanged
  /\ The(owid.target).value \in CorruptValues

\* the four bytes of a number below 2^32, least significant first
LittleEndian4(n) ==
  << n % 256, (n \div 256) % 256, (n \div 65536) % 256,
     (n \div 16777216) % 256 >>

\* the canonical message of an OWID with a target and an encodable domain:
\* the target bytes (for the test target its value behind its length), one
\* version byte (0 when there is no version), the code units of the domain,
\* one 0, and the low 32 bits of the whole minutes of the timestamp (0 when
\* there is no timestamp)
Canonical(o) ==
  LittleEndian4(Len(The(o.target).value)) \o The(o.target).value
    \o <<IF IsSome(o.version) THEN The(o.version) ELSE 0>>
    \o The(o.domain) \o <<0>>
    \o LittleEndian4(IF IsSome(o.timestamp) THEN The(o.timestamp).whole ELSE 0)

\* the fields other than the five the message is made of
OtherFields ==
  [signatureArray : {None, Some([len |-> 64, pair |-> 2, msg |-> <<1>>])},
   _status : VerifiedStatus,
   _signer : {None, Some(1)}]

\* a step of a verifyWith* call
VerifyStep ==
  \/ last' # last /\ last'.op \in VerifyOps
  \/ \E c \in CallIds :
       /\ calls'[c] # calls[c]
       /\ calls[c].op \in VerifyOps \/ calls'[c].op \in VerifyOps

\* C20: the message assembled for signing and for verification is the
\* target bytes, one version byte, the bytes of the domain, one 0 and the
\* timestamp in 4 little endian bytes; it does not depend on the
\* signature, the status or the signer; a signature stored by signing is
\* the signature of that message, verification answers Valid exactly for a
\* signature of that message, and verifying, which builds the message,
\* leaves version, domain, timestamp, signature and target as they were.
C20_CanonicalMessage ==
  [][/\ (IsSome(owid.target) /\ Encodable(owid.domain))
          => /\ addTargetAndOwidData(owid, <<>>) = Bytes(Canonical(owid))
             /\ \A f \in OtherFields :
                  addTargetAndOwidData(
                    [owid EXCEPT !.signatureArray = f.signatureArray,
                                 !._status = f._status,
                                 !._signer = f._signer], <<>>) =
                    Bytes(Canonical(owid))
     /\ ~(IsSome(owid.target) /\ Encodable(owid.domain))
          => ~addTargetAndOwidData(owid, <<>>).ok
     /\ IsSome(intact)
          => The(owid.signatureArray).msg = Canonical(owid)
     /\ (Settled({"verifyWithCrypto"}) /\ last.ok)
          => (last.v = "Valid"
                <=> /\ The(owid.signatureArray).len = 64
                    /\ The(owid.signatureArray).pair = last.arg.pair
                    /\ The(owid.signatureArray).msg = Canonical(owid))
     /\ VerifyStep
          => /\ owid'.version = owid.version
             /\ owid'.domain = owid.domain
             /\ owid'.timestamp = owid.timestamp
             /\ owid'.signatureArray = owid.signatureArray
             /\ owid'.target = owid.target]_vars

\* a freshly signed OWID, with a timestamp of 120.5 minutes, has verified
C20_Witness ==
  /\ VerifiedWithMatchingKey
  /\ IsSome(intact)
  /\ last.v = "Valid"
  /\ The(owid.signatureArray).msg = Canonical(owid)
  /\ The(owid.timestamp).frac > 0

\* the OWID has a shape the byte form is made for: version 1, a non-empty
\* domain of code units 1..255, a whole timestamp in 0 .. 2^32 - 1 and a
\* signature of 64 bytes
ValidShape(o) ==
  /\ o.version = Some(1)
  /\ IsSome(o.domain)
  /\ Len(The(o.domain)) > 0
  /\ \A i \in 1 .. Len(The(o.domain)) :
       The(o.domain)[i] >= 1 /\ The(o.domain)[i] <= 255
  /\ IsSome(o.timestamp)
  /\ The(o.timestamp).frac = 0
  /\ \/ The(o.timestamp).wraps = 0 /\ The(o.timestamp).whole >= 0
     \/ The(o.timestamp).wraps = 1 /\ The(o.timestamp).whole < 0
  /\ IsSome(o.signatureArray)
  /\ The(o.signatureArray).len = 64

\* fromByteArray has read exactly the bytes that addToByteArray wrote
ReadBack == io.op = "fromByteArray" /\ io.reader.array = io.b /\ Len(io.b) > 0

\* C21: for every OWID with version 1, a non-empty domain of code units
\* 1..255, a timestamp in 0 .. 2^32 - 1 and a signature of 64 bytes,
\* fromByteArray applied to what addToByteArray wrote gives the same
\* version, domain, timestamp and signature, and leaves the reader as many
\* bytes further as were written.
C21_ByteCodecRoundTrip ==
  (ReadBack /\ ValidShape(io.enc))
    => /\ io.ok
       /\ io.out.version = io.enc.version
       /\ io.out.domain = io.enc.domain
       /\ io.out.timestamp = io.enc.timestamp
       /\ io.out.signatureArray = io.enc.signatureArray
       /\ io.reader.index = Len(io.b)

\* fromByteArray was given bytes whose first byte is not 1
OtherVersion ==
  /\ io.op = "fromByteArray"
  /\ Len(io.reader.array) > 0
  /\ io.reader.array[1] # 1

\* C22: fromByteArray on bytes whose first byte is not 1 throws and reads
\* no further: the reader is one byte on, and domain, timestamp and
\* signature are what they were.
C22_VersionRejection ==
  OtherVersion
    => /\ ~io.ok
       /\ io.reader.index = 1
       /\ io.out.domain = io.prev.domain
       /\ io.out.timestamp = io.prev.timestamp
       /\ io.out.signatureArray = io.prev.signatureArray

\* bytes of a version 2 OWID were given to an OWID that held other fields
C22_Witness ==
  /\ OtherVersion
  /\ ~io.ok
  /\ io.reader.array[1] = 2
  /\ Len(io.reader.array) = 71
  /\ io.out.version = Some(2)
  /\ IsSome(io.prev.domain)

\* the bytes hold a whole OWID: a version byte, a domain up to its 0, four
\* bytes of timestamp and 64 bytes of signature
Whole(array) ==
  \E z \in 2 .. Len(array) :
    /\ array[z] = 0
    /\ \A i \in 2 .. (z - 1) : array[i] # 0
    /\ Len(array) >= z + 4 + 64

\* C23: reading an OWID from bytes that end before the version byte, the 0
\* of the domain, the 4 bytes of the timestamp and the 64 bytes of the
\* signature have been read fails with an error; it never completes with a
\* partially read OWID.
C23_TruncatedInputFails ==
  (io.op = "fromByteArray" /\ ~Whole(io.reader.array)) => ~io.ok

\* C24: in every state reached through the constructor (with or without a
\* serialized source), the setter of signature, fromByteArray and signing,
\* the signature of the OWID is absent or exactly 64 bytes long.
C24_SignatureLength ==
  IsSome(owid.signatureArray) => The(owid.signatureArray).len = 64

\* C25: isSigned is true if and only if the signature is present and
\* exactly 64 bytes long.
C25_IsSigned ==
  isSigned(owid)
    <=> (IsSome(owid.signatureArray) /\ The(owid.signatureArray).len = 64)

\* C26: the timestamp that signing stores is the whole number of minutes
\* floor((instant - base) / 60000), in 0 .. 2^32 - 1, without a fraction.
C26_WholeMinuteTimestamp ==
  IsSome(owid.timestamp)
    => /\ The(owid.timestamp).frac = 0
       /\ The(owid.timestamp).wraps = 0
       /\ The(owid.timestamp).whole >= 0

\* get call g has returned a signer
Returned(g) == gets[g].pc = "done" /\ gets[g].ok

\* C27: a signer stored for a version and domain is found by any later get
\* whose key has equal version and domain, even when it is another object:
\* get calls for one (version, domain) that do not overlap and return a
\* signer cause at most one fetch and return the stored signer.
C27_StructuralCacheKeys ==
  \A u \in Urls :
    \A g, h \in GetsFor(u) :
      (g # h /\ ~Overlap(g, h) /\ Returned(g) /\ Returned(h))
        => /\ fetches[u] <= 1
           /\ gets[g].signer = gets[h].signer

\* the fetch of get call g was answered, and not with a 2xx status and the
\* JSON of a signer
BadResponse(g) ==
  /\ IsSome(gets[g].response)
  /\ ~The(gets[g].response).ok \/ The(gets[g].response).body # "signer"

\* C28: when the response is not 2xx, or its body cannot be made into a
\* signer, get fails and writes no entry for its key, so that a later get
\* for that key fetches again.
C28_FailedFetchCommitsNothing ==
  \A g \in GetIds :
    (gets[g].pc = "done" /\ BadResponse(g))
      => /\ ~gets[g].ok
         /\ \/ map[gets[g].key] = None
            \/ \E h \in GetIds :
                 /\ h # g
                 /\ gets[h].key = gets[g].key
                 /\ Returned(h)
                 /\ map[gets[g].key] = Some(gets[h].signer)

\* C29: after the pem of a Key was changed, getCryptoKey gives a crypto key
\* imported from the new pem, or fails; it never gives the key made from
\* the previous pem.  So every crypto key that verifyWithPublicKey got from
\* the Key and handed to verification is an import of the pem of the Key.
C29_KeyCacheInvalidation ==
  Settled({"verifyWithPublicKey"})
    => \A i \in 1 .. Len(last.verified) :
         Ok(last.verified[i]) \in ImportKey(keys[last.arg].pem)

\* what verifying OWID o with a crypto key gives: a status, or "Exception"
\* for a rejected promise
VerifyResult(o, key) ==
  LET data == addTargetAndOwidData(o, <<>>)
      r == IF data.ok THEN CryptoVerify(key, o.signatureArray, data.b)
           ELSE Throw
  IN IF r.ok THEN (IF r.v THEN "Valid" ELSE "NotValid") ELSE "Exception"

\* the OWID is the one that the constructor made of the JSON of io.prev,
\* but for the status that verification has written since
StillReconstructed ==
  /\ io.op = "toJSON"
  /\ [owid EXCEPT !._status = "NotStarted"] = io.out

\* C30: for a signed OWID o, new OWID(target, o.toJSON()) has the version,
\* domain, timestamp and signature bytes of o, starts with status
\* NotStarted and no signer, and verifies with any key as o does.
C30_JsonRoundTrip ==
  io.op = "toJSON"
    => /\ io.out.version = io.prev.version
       /\ io.out.domain = io.prev.domain
       /\ io.out.timestamp = io.prev.timestamp
       /\ io.out.signatureArray = io.prev.signatureArray
       /\ SigBytes(The(io.out.signatureArray)) =
            SigBytes(The(io.prev.signatureArray))
       /\ The(io.source).signature =
            Some(byteArrayToBase64(SigBytes(The(io.prev.signatureArray))))
       /\ io.out.target = io.prev.target
       /\ io.out._status = "NotStarted"
       /\ io.out._signer = None
       /\ (StillReconstructed /\ Settled({"verifyWithCrypto"}))
            => Outcome = VerifyResult(io.prev, last.arg)

\* an OWID that was signed at 120.5 minutes and had verified was rebuilt
\* from its JSON, and the new OWID has verified too
C30_Witness ==
  /\ StillReconstructed
  /\ io.prev._status = "Valid"
  /\ The(io.prev.timestamp).frac > 0
  /\ The(io.prev.signatureArray).len = 64
  /\ Settled({"verifyWithCrypto"})
  /\ last.v = "Valid"
  /\ owid._status = "Valid"

\* the low 8 bits of the code units of a string
Low8(d) == [i \in 1 .. Len(d) |-> d[i] % 256]

\* the OWID has a domain that is not ''
HasDomain == IsSome(owid.domain) /\ Len(The(owid.domain)) > 0

\* a code unit of the domain is above 255
WideDomain ==
  HasDomain /\ \E i \in 1 .. Len(The(owid.domain)) : The(owid.domain)[i] > 255

\* signWithCryptoKey with a key that can sign has settled on an OWID that
\* has a target and a domain
SignedWithDomain ==
  /\ Settled({"signWithCryptoKey"})
  /\ "sign" \in last.arg.usages
  /\ IsSome(owid.target)
  /\ HasDomain

OtherValues == TargetValues \cup CorruptValues \cup {<<120, 0, 1>>}
OtherDomains == Domains \cup CorruptDomains \cup {<<1, 97>>}

\* the OWID with another target value and another domain, and the version
\* and the timestamp it has
WithPair(v, d) ==
  [owid EXCEPT !.target = Some([value |-> v]), !.domain = Some(d)]

\* the pair differs from the pair of the OWID
OtherPair(v, d) ==
  \/ addOwidData([value |-> v], <<>>) # addOwidData(The(owid.target), <<>>)
  \/ Some(d) # owid.domain

StepOf(ops) ==
  \/ \E c \in CallIds :
       /\ calls'[c] # calls[c]
       /\ calls[c].op \in ops \/ calls'[c].op \in ops
  \/ /\ calls' = calls
     /\ last = NoLast
     /\ last' # NoLast
     /\ last'.op \in ops

\* this step is a step of a call whose running frame is one of fns
StepIn(fns) ==
  \E c \in CallIds :
    /\ calls'[c] # calls[c]
    /\ Len(calls[c].stack) > 0
    /\ calls[c].stack[Len(calls[c].stack)].fn \in fns

\* C34: signWithCryptoKey, signWithPemKey and signWithSigner never change
\* the status; signWithCryptoKey and signWithPemKey also leave the domain
\* and the recorded signer as they are.
C34_SigningLeavesStatus ==
  [][/\ StepOf({"signWithCryptoKey", "signWithSigner"})
          => owid'._status = owid._status
     /\ (\/ StepOf({"signWithCryptoKey"})
         \/ StepIn({"signWithCryptoKey", "signWithPemKey"}))
          => /\ owid'.domain = owid.domain
             /\ owid'._signer = owid._signer]_vars

\* an OWID that was verified Valid with a signer has been signed again with
\* a crypto key, and is still Valid with that signer
C34_Witness ==
  /\ Settled({"signWithCryptoKey"})
  /\ last.ok
  /\ owid._status = "Valid"
  /\ IsSome(owid._signer)

\* the OWID with the fields that signing writes as they were when the
\* settled call started
Before ==
  [owid EXCEPT !.version = last.before.version,
               !.domain = last.before.domain,
               !.timestamp = last.before.timestamp,
               !.signatureArray = last.before.signatureArray]

\* C35: a signing call that fails leaves version, domain, timestamp and
\* signature as they were before the call, and an OWID that verified Valid
\* before the failed call still verifies Valid after it.
C35_FailedSigningIsAtomic ==
  (Settled({"signWithCryptoKey", "signWithSigner"}) /\ ~last.ok)
    => /\ Signed(owid) = last.before
       /\ \A p \in KeyPairs :
            VerifyResult(Before, publicKey(p)) = "Valid"
              => VerifyResult(owid, publicKey(p)) = "Valid"

\* C33: in every state that the constructor and the calls that sign and
\* verify lead to, with no direct write of a field and no call in flight, a
\* recorded signer has the domain of the OWID.
C33_SignerHasDomainOfOwid ==
  ((\A c \in CallIds : ~Running(c)) /\ IsSome(owid._signer))
    => Some(Signers[The(owid._signer)].domain) = owid.domain

\* the results that verifyWithPublicKeys(list) can have on OWID o with the
\* Key objects as they are
ListResults(o, list) ==
  LET i == SelectKey(keys, list, timeStampDate(o), 1)
  IN IF i = 0 THEN {"KeyNotFound"}
     ELSE LET k == list[i]
              imports == IF IsSome(keys[k]._cryptoKey)
                         THEN {Ok(The(keys[k]._cryptoKey))}
                         ELSE ImportKey(keys[k].pem)
          IN {IF r.ok THEN VerifyResult(o, r.v) ELSE "Exception" :
                r \in imports}

\* the OWID is what fromByteArray made of the bytes that addToByteArray
\* wrote of an OWID as signWithCryptoKey left it
ReadBackSigned ==
  /\ io.op = "fromByteArray"
  /\ io.ok
  /\ Signed(owid) = Signed(io.out)
  /\ owid.target = io.enc.target
  /\ IsSome(io.enc.signatureArray)
  /\ The(io.enc.signatureArray).pair > 0
  /\ addTargetAndOwidData(io.enc, <<>>) =
       Bytes(The(io.enc.signatureArray).msg)
  /\ \E now \in Nows : io.enc.timestamp = Some(getDateInMinutes(now))

\* C36: for an OWID o just signed by signWithCryptoKey and every list of
\* keys, verifyWithPublicKeys(list) on the OWID that fromByteArray reads
\* from the bytes that o.addToByteArray wrote gives the status that it gives
\* on o: the same key is selected, with the same result.
C36_SerializationKeepsVerification ==
  (Settled({"verifyWithPublicKeys"}) /\ ReadBackSigned)
    => /\ Outcome \in ListResults(io.enc, last.arg)
       /\ SelectKey(keys, last.arg, timeStampDate(owid), 1) =
            SelectKey(keys, last.arg, timeStampDate(io.enc), 1)

\* value o is an array nested more than n deep: an array is one deep, an
\* array with an array in it two, and an array that holds itself is deeper
\* than any n
RECURSIVE Deeper(_, _)
Deeper(o, n) ==
  /\ o.type = "object"
  /\ \/ n = 0
     \/ \E i \in 1 .. Len(legacy.arrays[o.array]) :
          Deeper(legacy.arrays[o.array][i], n - 1)

\* the strings of value o in their order, for a value that is not nested
\* more than n deep
RECURSIVE Strings(_, _)
RECURSIVE StringsFrom(_, _, _)
Strings(o, n) ==
  IF o.type = "string" THEN <<o>>
  ELSE IF o.type = "undefined" \/ n = 0 THEN <<>>
  ELSE StringsFrom(legacy.arrays[o.array], n, 1)

StringsFrom(elements, n, i) ==
  IF i > Len(elements) THEN <<>>
  ELSE Strings(elements[i], n - 1) \o StringsFrom(elements, n, i + 1)

\* C40: the flattening of the owids argument of the verify of version 1
\* goes into nested arrays at most maxVerifyDepth (3) deep: an argument
\* nested no deeper is flattened to its strings, and a deeper one, also an
\* array that holds itself, makes verify throw instead of going on forever.
C40_LegacyVerifyDepth ==
  IsSome(legacy.list)
    => LET owids == The(legacy.owids)
           list == The(legacy.list)
       IN /\ list.ok <=> ~Deeper(owids, maxVerifyDepth)
          /\ list.ok => list.v = Strings(owids, maxVerifyDepth)

\* verify has thrown for an array that holds itself
C40_Witness ==
  /\ IsSome(legacy.list)
  /\ ~The(legacy.list).ok
  /\ LET a == The(legacy.owids).array
     IN \E i \in 1 .. Len(legacy.arrays[a]) : legacy.arrays[a][i] = Array(a)

\* the results that the settled verification can have by itself, on the
\* OWID and the Key objects as they are
OwnResults ==
  IF last.op = "verifyWithCrypto" THEN {VerifyResult(owid, last.arg)}
  ELSE IF last.op = "verifyWithPublicKey" THEN KeyResults(last.arg)
  ELSE IF Some(Signers[last.arg].domain) # owid.domain THEN {"Exception"}
  ELSE ListResults(owid, Signers[last.arg].publicKeys)

\* the settled call is a verification, and nothing that the message is made
\* of was written while it was in flight
VerifySettled ==
  /\ Settled({"verifyWithCrypto", "verifyWithPublicKey", "verifyWithSigner"})
  /\ Signed(owid) = last.before

\* C32 as stated: when verify calls on one OWID overlap, each returns the
\* result of its own verification, and once all have settled the status and
\* the signer are what one of the calls leaves when run alone: the status
\* Exception never goes with a recorded signer.
C32_OverlappingVerifications ==
  /\ VerifySettled => Outcome \in OwnResults
  /\ (\A c \in CallIds : ~Running(c))
       => ~(owid._status = "Exception" /\ IsSome(owid._signer))

\* C32 amended: when verify calls on one OWID overlap, each returns the
\* result of its own verification; a verifyWithCrypto that settles leaves
\* its result as the status, and a verifyWithSigner that fulfils leaves its
\* signer as the signer, whatever status another call has written in the
\* meantime.
C32_OverlappingVerificationsMix ==
  /\ VerifySettled => Outcome \in OwnResults
  /\ Settled({"verifyWithCrypto"}) => owid._status = Outcome
  /\ (Settled({"verifyWithSigner"}) /\ last.ok)
       => owid._signer = Some(last.arg)

\* verifyWithSigner has returned Valid and recorded its signer on an OWID
\* whose status an overlapping verification has left as Exception
C32_Witness ==
  /\ Settled({"verifyWithSigner"})
  /\ last.ok
  /\ last.v = "Valid"
  /\ owid._status = "Exception"
  /\ owid._signer = Some(last.arg)
  /\ \A c \in CallIds : ~Running(c)

\* in this step a getCryptoKey call on Key k resumes after its import
ImportSettles(k) ==
  \E c \in CallIds :
    /\ Suspended(c, "getCryptoKey", "ext")
    /\ Top(Env(c)).key = k
    /\ calls'[c] # calls[c]

\* in this step a getCryptoKey call on Key k resumes after a successful
\* import and assigns the imported key to _cryptoKey
Assigns(k) ==
  \E c \in CallIds :
    /\ Suspended(c, "getCryptoKey", "ext")
    /\ Top(Env(c)).key = k
    /\ calls'[c] # calls[c]
    /\ IsSome(calls'[c].ret)
    /\ The(calls'[c].ret).ok

\* in this step a getCryptoKey call on Key k starts an import
StartsImport(k) ==
  \E c \in CallIds :
    /\ ~Suspended(c, "getCryptoKey", "ext")
    /\ Running(c)'
    /\ Len(calls'[c].stack) > 0
    /\ calls'[c].stack[Len(calls'[c].stack)].fn = "getCryptoKey"
    /\ calls'[c].stack[Len(calls'[c].stack)].key = k

\* C38: once the cached crypto key of a Key has been set by a successful
\* getCryptoKey, no later and no concurrently running getCryptoKey call
\* assigns it again, and calls started after it is set import nothing; a
\* failed import leaves the cache unset.
C38_WriteOnceLazyKey ==
  [][\A k \in KeyIds :
       /\ IsSome(keys[k]._cryptoKey)
            => /\ keys'[k]._cryptoKey = keys[k]._cryptoKey
               /\ ~Assigns(k)
               /\ ~StartsImport(k)
       /\ (ImportSettles(k) /\ ~Assigns(k))
            => keys'[k]._cryptoKey = keys[k]._cryptoKey]_vars

\* while a signWithCryptoKey call is suspended in Crypto.sign, the version
\* and the timestamp are written and the signature is the one that the OWID
\* had when the call started
SignatureOnResume ==
  \A c \in CallIds :
    SuspendedAt(c, "signWithCryptoKey", "ext")
      => /\ owid.version = Some(1)
         /\ \E now \in Nows : owid.timestamp = Some(getDateInMinutes(now))
         /\ owid.signatureArray = The(calls[c].before).signatureArray

\* a settled verification that assembled its message while a signing was
\* suspended in Crypto.sign was evaluated against the signature from before
\* that signing, and is an Exception when there was none
AgainstPrevious ==
  (Settled({"verifyWithCrypto", "verifyWithPublicKey"})
     /\ Len(last.handed) > 0)
    => LET h == last.handed[Len(last.handed)]
       IN IsSome(h.signing)
            => /\ h.signature = The(h.signing)
               /\ ~IsSome(The(h.signing)) => Outcome = "Exception"

\* C31 as stated: signWithCryptoKey writes version and timestamp before it
\* suspends in Crypto.sign and the signature only when it resumes; a verify
\* that assembles its message while the sign is suspended is evaluated
\* against the previous signature (Exception if there was none), and only a
\* verify started after the sign's promise has fulfilled returns Valid for
\* the new signature: the signature that a verify finds Valid is the one
\* the OWID had when the verify started.
C31_SignBeforeVerify ==
  /\ SignatureOnResume
  /\ AgainstPrevious
  /\ (Settled({"verifyWithCrypto", "verifyWithPublicKey"})
        /\ Outcome = "Valid")
       => last.handed[Len(last.handed)].signature =
            last.before.signatureArray

\* C31 amended: signWithCryptoKey writes version and timestamp before it
\* suspends in Crypto.sign and the signature only when it resumes; a verify
\* that assembles its message while the sign is suspended is evaluated
\* against the previous signature (Exception if there was none); a verify
\* returns the result for the signature that the OWID has when the verify
\* assembles its message, so a verify that was started before the sign has
\* fulfilled and assembles after it returns Valid for the new signature.
C31_SignBeforeVerifyAssembles ==
  /\ SignatureOnResume
  /\ AgainstPrevious
  /\ (Settled({"verifyWithCrypto", "verifyWithPublicKey"})
        /\ Len(last.handed) > 0
        /\ Signed(owid) = [last.before EXCEPT !.signatureArray =
                             owid.signatureArray])
       => Outcome =
            VerifyResult([owid EXCEPT !.signatureArray =
                            last.handed[Len(last.handed)].signature],
                         last.verified[Len(last.verified)])

\* verifyWithPublicKey was started on an OWID without a signature, before
\* a signWithCryptoKey had fulfilled, and has returned Valid
C31_Witness ==
  /\ Settled({"verifyWithPublicKey"})
  /\ Outcome = "Valid"
  /\ ~IsSome(last.before.signatureArray)
  /\ last.before.version = Some(1)

====
